---- MODULE Spec2Model ----
(***************************************************************************)
(* The envelope encryption of password-vault: the Node services            *)
(* (EncryptionService, SecurityService), the CryptoJS client class         *)
(* (ClientEncryption), the dashboard's Web Crypto class and its XOR        *)
(* fallback (SecureClientEncryption, SimpleClientEncryption), the          *)
(* VaultList decrypt path, and the vault item API they talk to.            *)
(*                                                                         *)
(* A string is a sequence of UTF-16 code units, a byte string a sequence   *)
(* of numbers 0..255.  Every conversion the code makes (UTF-8, hex,        *)
(* base64) is computed.  The library ciphers are computed by small         *)
(* arithmetic stand-ins with the libraries' structure: PBKDF2 mixes        *)
(* password and salt into keyLength bytes, AES-GCM is a key/nonce stream   *)
(* XORed on the plaintext plus a 16-byte tag over key, nonce and           *)
(* ciphertext, AES-CBC is a keyed block permutation chained over           *)
(* PKCS7-padded blocks.                                                    *)
(***************************************************************************)
EXTENDS Integers, Sequences, FiniteSets, TLC

(***************************************************************************)
(* Bounds of the model.                                                    *)
(***************************************************************************)
\* plaintexts hold at most MaxChars characters
MaxChars == 1
\* the random sources are met in at most MaxDraws states
MaxDraws == 2
\* the vault holds at most MaxItems items
MaxItems == 1

(***************************************************************************)
(* Program constants.                                                      *)
(***************************************************************************)
keyLength == 32
saltLength == 16
ivLength == 12
tagLength == 16
iterations == 100000
\* CryptoJS.lib.WordArray.random(128/8)
cbcRandomLength == 16
\* the AES block, in bytes
blockSize == 16

(***************************************************************************)
(* Results of operations that may throw.                                   *)
(***************************************************************************)
Ok(v) == [ok |-> TRUE, val |-> v, err |-> ""]
Throw(m) == [ok |-> FALSE, val |-> <<>>, err |-> m]

\* a field an envelope does not have (undefined)
Undefined == <<-1>>

(***************************************************************************)
(* Numbers and bytes.                                                      *)
(***************************************************************************)
RECURSIVE BitXor(_, _)
BitXor(a, b) ==
    IF a = 0 THEN b
    ELSE IF b = 0 THEN a
    ELSE (((a % 2) + (b % 2)) % 2) + 2 * BitXor(a \div 2, b \div 2)

RECURSIVE Pow2(_)
Pow2(n) == IF n = 0 THEN 1 ELSE 2 * Pow2(n - 1)

\* s with bit `bit` of its element idx inverted
FlipBit(s, idx, bit) == [s EXCEPT ![idx] = BitXor(@, Pow2(bit))]

RECURSIVE MixFrom(_, _, _)
MixFrom(s, m, i) ==
    IF i > Len(s) THEN 0 ELSE (m * (s[i] + MixFrom(s, m, i + 1))) % 251

\* sum of s[i] * m^i modulo the prime 251
Mix(s, m) == MixFrom(s, m, 1)

Repeat(x, n) == [i \in 1..n |-> x]

(***************************************************************************)
(* UTF-8 (TextEncoder, TextDecoder, Node's 'utf8').                        *)
(***************************************************************************)
IsHighSurrogate(u) == u >= 55296 /\ u <= 56319
IsLowSurrogate(u) == u >= 56320 /\ u <= 57343
IsSurrogate(u) == u >= 55296 /\ u <= 57343

RECURSIVE Utf8EncodeFrom(_, _)
Utf8EncodeFrom(s, i) ==
    IF i > Len(s) THEN <<>>
    ELSE LET u == s[i] IN
      IF u < 128 THEN <<u>> \o Utf8EncodeFrom(s, i + 1)
      ELSE IF u < 2048
        THEN <<192 + (u \div 64), 128 + (u % 64)>> \o Utf8EncodeFrom(s, i + 1)
      ELSE IF IsHighSurrogate(u) /\ i < Len(s) /\ IsLowSurrogate(s[i + 1])
        THEN LET cp == 65536 + (u - 55296) * 1024 + (s[i + 1] - 56320) IN
             <<240 + (cp \div 262144), 128 + ((cp \div 4096) % 64),
               128 + ((cp \div 64) % 64), 128 + (cp % 64)>>
             \o Utf8EncodeFrom(s, i + 2)
      ELSE IF IsSurrogate(u)
        THEN <<239, 191, 189>> \o Utf8EncodeFrom(s, i + 1)
      ELSE <<224 + (u \div 4096), 128 + ((u \div 64) % 64), 128 + (u % 64)>>
           \o Utf8EncodeFrom(s, i + 1)

Utf8Encode(s) == Utf8EncodeFrom(s, 1)

InRange(b, i, lo, hi) == i <= Len(b) /\ b[i] >= lo /\ b[i] <= hi
IsCont(b, i) == InRange(b, i, 128, 191)

RECURSIVE Utf8DecodeFrom(_, _)
Utf8DecodeFrom(b, i) ==
    IF i > Len(b) THEN <<>>
    ELSE LET c == b[i] IN
      IF c < 128 THEN <<c>> \o Utf8DecodeFrom(b, i + 1)
      ELSE IF c >= 194 /\ c <= 223 THEN
        IF IsCont(b, i + 1)
        THEN <<(c - 192) * 64 + (b[i + 1] - 128)>> \o Utf8DecodeFrom(b, i + 2)
        ELSE <<65533>> \o Utf8DecodeFrom(b, i + 1)
      ELSE IF c >= 224 /\ c <= 239 THEN
        IF ~InRange(b, i + 1, IF c = 224 THEN 160 ELSE 128,
                              IF c = 237 THEN 159 ELSE 191)
        THEN <<65533>> \o Utf8DecodeFrom(b, i + 1)
        ELSE IF ~IsCont(b, i + 2)
        THEN <<65533>> \o Utf8DecodeFrom(b, i + 2)
        ELSE <<(c - 224) * 4096 + (b[i + 1] - 128) * 64 + (b[i + 2] - 128)>>
             \o Utf8DecodeFrom(b, i + 3)
      ELSE IF c >= 240 /\ c <= 244 THEN
        IF ~InRange(b, i + 1, IF c = 240 THEN 144 ELSE 128,
                              IF c = 244 THEN 143 ELSE 191)
        THEN <<65533>> \o Utf8DecodeFrom(b, i + 1)
        ELSE IF ~IsCont(b, i + 2)
        THEN <<65533>> \o Utf8DecodeFrom(b, i + 2)
        ELSE IF ~IsCont(b, i + 3)
        THEN <<65533>> \o Utf8DecodeFrom(b, i + 3)
        ELSE LET v == (c - 240) * 262144 + (b[i + 1] - 128) * 4096
                      + (b[i + 2] - 128) * 64 + (b[i + 3] - 128) - 65536
             IN <<55296 + (v \div 1024), 56320 + (v % 1024)>>
                \o Utf8DecodeFrom(b, i + 4)
      ELSE <<65533>> \o Utf8DecodeFrom(b, i + 1)

\* the replacing decoder (TextDecoder, Buffer.toString('utf8'))
Utf8Decode(b) == Utf8DecodeFrom(b, 1)

\* the strict decoder (CryptoJS.enc.Utf8.stringify)
Utf8Stringify(b) ==
    IF Utf8Encode(Utf8Decode(b)) = b THEN Ok(Utf8Decode(b))
    ELSE Throw("Malformed UTF-8 data")

(***************************************************************************)
(* Hex (Buffer.toString('hex'), Buffer.from(s, 'hex')).                    *)
(***************************************************************************)
HexDigit(n) == IF n < 10 THEN 48 + n ELSE 87 + n

HexVal(c) ==
    IF c >= 48 /\ c <= 57 THEN c - 48
    ELSE IF c >= 97 /\ c <= 102 THEN c - 87
    ELSE IF c >= 65 /\ c <= 70 THEN c - 55
    ELSE -1

HexEncode(b) ==
    [i \in 1..(2 * Len(b)) |->
        IF i % 2 = 1 THEN HexDigit(b[(i + 1) \div 2] \div 16)
        ELSE HexDigit(b[i \div 2] % 16)]

RECURSIVE HexDecodeFrom(_, _)
HexDecodeFrom(s, i) ==
    IF i + 1 > Len(s) THEN <<>>
    ELSE IF HexVal(s[i]) < 0 \/ HexVal(s[i + 1]) < 0 THEN <<>>
    ELSE <<HexVal(s[i]) * 16 + HexVal(s[i + 1])>> \o HexDecodeFrom(s, i + 2)

\* decoding stops at the first pair that is not hex
HexDecode(s) == HexDecodeFrom(s, 1)

(***************************************************************************)
(* Base64 (btoa, atob).                                                    *)
(***************************************************************************)
B64Char(v) ==
    IF v < 26 THEN 65 + v
    ELSE IF v < 52 THEN 97 + (v - 26)
    ELSE IF v < 62 THEN 48 + (v - 52)
    ELSE IF v = 62 THEN 43
    ELSE 47

B64Val(c) ==
    IF c >= 65 /\ c <= 90 THEN c - 65
    ELSE IF c >= 97 /\ c <= 122 THEN c - 97 + 26
    ELSE IF c >= 48 /\ c <= 57 THEN c - 48 + 52
    ELSE IF c = 43 THEN 62
    ELSE IF c = 47 THEN 63
    ELSE -1

RECURSIVE B64EncodeFrom(_, _)
B64EncodeFrom(b, i) ==
    LET n == Len(b) - i + 1 IN
    IF n <= 0 THEN <<>>
    ELSE IF n = 1
      THEN <<B64Char(b[i] \div 4), B64Char((b[i] % 4) * 16), 61, 61>>
    ELSE IF n = 2
      THEN <<B64Char(b[i] \div 4),
             B64Char((b[i] % 4) * 16 + (b[i + 1] \div 16)),
             B64Char((b[i + 1] % 16) * 4), 61>>
    ELSE <<B64Char(b[i] \div 4),
           B64Char((b[i] % 4) * 16 + (b[i + 1] \div 16)),
           B64Char((b[i + 1] % 16) * 4 + (b[i + 2] \div 64)),
           B64Char(b[i + 2] % 64)>> \o B64EncodeFrom(b, i + 3)

\* btoa: throws on a code unit above 255
Btoa(s) ==
    IF \E i \in 1..Len(s) : s[i] > 255 THEN Throw("InvalidCharacterError")
    ELSE Ok(B64EncodeFrom(s, 1))

StripPad(s) ==
    IF Len(s) > 0 /\ Len(s) % 4 = 0 /\ s[Len(s)] = 61
    THEN IF s[Len(s) - 1] = 61 THEN SubSeq(s, 1, Len(s) - 2)
         ELSE SubSeq(s, 1, Len(s) - 1)
    ELSE s

RECURSIVE B64DecodeFrom(_, _)
B64DecodeFrom(s, i) ==
    LET n == Len(s) - i + 1 IN
    IF n <= 1 THEN <<>>
    ELSE IF n = 2
      THEN <<B64Val(s[i]) * 4 + (B64Val(s[i + 1]) \div 16)>>
    ELSE IF n = 3
      THEN <<B64Val(s[i]) * 4 + (B64Val(s[i + 1]) \div 16),
             (B64Val(s[i + 1]) % 16) * 16 + (B64Val(s[i + 2]) \div 4)>>
    ELSE <<B64Val(s[i]) * 4 + (B64Val(s[i + 1]) \div 16),
           (B64Val(s[i + 1]) % 16) * 16 + (B64Val(s[i + 2]) \div 4),
           (B64Val(s[i + 2]) % 4) * 64 + B64Val(s[i + 3])>>
         \o B64DecodeFrom(s, i + 4)

\* atob: throws on a character outside the alphabet or a length of 4k+1
Atob(s) ==
    LET t == StripPad(s) IN
    IF Len(t) % 4 = 1 \/ (\E i \in 1..Len(t) : B64Val(t[i]) < 0)
    THEN Throw("InvalidCharacterError")
    ELSE Ok(B64DecodeFrom(t, 1))

(***************************************************************************)
(* The library primitives.                                                 *)
(***************************************************************************)
\* PBKDF2-HMAC-SHA256 (crypto.pbkdf2Sync, subtle.deriveKey, CryptoJS.PBKDF2):
\* len bytes, each mixing the password, the salt and the iteration count
Pbkdf2(password, salt, iters, len) ==
    LET h == Mix(password, 3)
        s == Mix(salt, 5)
    IN [i \in 1..len |-> (h * i + s * (i + 1) + iters + i * i) % 251]

\* the AES-GCM key stream: byte i under a key and a nonce
GcmStream(key, iv, n) ==
    LET v == Mix(iv, 3)
    IN [i \in 1..n |-> (key[((i - 1) % Len(key)) + 1] * 7 + v * 11 + i * 13) % 256]

\* the AES-GCM tag, 16 bytes over the key, the nonce and the ciphertext
GcmTag(key, iv, ct) ==
    LET k == Mix(key, 2)
        v == Mix(iv, 3)
        c == Mix(ct, 5)
    IN [j \in 1..16 |->
          (k * j + v * (j + 1) + c * (j + 2) + Len(ct) * (j + 3) + j * j) % 251]

GcmXor(key, iv, data) ==
    LET ks == GcmStream(key, iv, Len(data))
    IN [i \in 1..Len(data) |-> BitXor(data[i], ks[i])]

\* createCipheriv('aes-256-gcm') + update + final + getAuthTag
GcmEncrypt(key, iv, pt) ==
    IF Len(key) # 32 THEN Throw("Invalid key length")
    ELSE IF Len(iv) = 0 THEN Throw("Invalid initialization vector")
    ELSE LET ct == GcmXor(key, iv, pt)
         IN Ok([ct |-> ct, tag |-> GcmTag(key, iv, ct)])

\* createDecipheriv('aes-256-gcm') + setAuthTag + update + final: the tag
\* may be 4, 8 or 12..16 bytes long and is compared over its own length
GcmDecrypt(key, iv, ct, tag) ==
    IF Len(key) # 32 THEN Throw("Invalid key length")
    ELSE IF Len(iv) = 0 THEN Throw("Invalid initialization vector")
    ELSE IF Len(tag) \notin {4, 8, 12, 13, 14, 15, 16}
      THEN Throw("Invalid authentication tag length")
    ELSE IF SubSeq(GcmTag(key, iv, ct), 1, Len(tag)) # tag
      THEN Throw("Unsupported state or unable to authenticate data")
    ELSE Ok(GcmXor(key, iv, ct))

\* subtle.encrypt({name: 'AES-GCM', iv}): the ciphertext with the tag appended
SubtleEncrypt(key, iv, pt) ==
    LET r == GcmEncrypt(key, iv, pt)
    IN IF r.ok THEN Ok(r.val.ct \o r.val.tag) ELSE r

\* subtle.decrypt({name: 'AES-GCM', iv}): the last 16 bytes are the tag
SubtleDecrypt(key, iv, data) ==
    IF Len(data) < 16 THEN Throw("OperationError")
    ELSE LET r == GcmDecrypt(key, iv, SubSeq(data, 1, Len(data) - 16),
                             SubSeq(data, Len(data) - 15, Len(data)))
         IN IF r.ok THEN r ELSE Throw("OperationError")

\* the AES block cipher and its inverse, on one 16-byte block
AesBlockEncrypt(key, block) ==
    [i \in 1..blockSize |-> (block[i] + key[i] + 3 * key[i + 16] + i) % 256]

AesBlockDecrypt(key, block) ==
    [i \in 1..blockSize |-> (block[i] + 1024 - key[i] - 3 * key[i + 16] - i) % 256]

XorBlock(a, b) == [i \in 1..blockSize |-> BitXor(a[i], b[i])]

\* CryptoJS.pad.Pkcs7.pad
Pkcs7Pad(b) ==
    LET n == blockSize - (Len(b) % blockSize) IN b \o Repeat(n, n)

\* CryptoJS.pad.Pkcs7.unpad: the last byte is trusted as the pad length
Pkcs7Unpad(b) ==
    LET n == IF Len(b) = 0 THEN 0 ELSE b[Len(b)]
    IN IF Len(b) - n <= 0 THEN <<>> ELSE SubSeq(b, 1, Len(b) - n)

RECURSIVE CbcEncryptFrom(_, _, _, _)
CbcEncryptFrom(key, prev, pt, i) ==
    IF i > Len(pt) THEN <<>>
    ELSE LET c == AesBlockEncrypt(key,
                     XorBlock(SubSeq(pt, i, i + blockSize - 1), prev))
         IN c \o CbcEncryptFrom(key, c, pt, i + blockSize)

RECURSIVE CbcDecryptFrom(_, _, _, _)
CbcDecryptFrom(key, prev, ct, i) ==
    IF i + blockSize - 1 > Len(ct) THEN <<>>
    ELSE LET c == SubSeq(ct, i, i + blockSize - 1)
         IN XorBlock(AesBlockDecrypt(key, c), prev)
            \o CbcDecryptFrom(key, c, ct, i + blockSize)

\* CryptoJS.AES.encrypt(data, key, {iv, padding: Pkcs7, mode: CBC})
CbcEncrypt(key, iv, pt) == CbcEncryptFrom(key, iv, Pkcs7Pad(pt), 1)

\* CryptoJS.AES.decrypt(ct, key, {iv, padding: Pkcs7, mode: CBC})
CbcDecrypt(key, iv, ct) == Pkcs7Unpad(CbcDecryptFrom(key, iv, ct, 1))

(***************************************************************************)
(* The random sources.  The secure one (crypto.randomBytes,                *)
(* crypto.getRandomValues, CryptoJS WordArray.random) hands out the value  *)
(* of an unused seed; Math.random is seeded by nothing the model tracks    *)
(* and may repeat.                                                         *)
(***************************************************************************)
Seeds == 1..MaxDraws

SecureRandomBytes(n, seed) ==
    [i \in 1..n |-> (seed * 41 + i * (seed + 6) * 7) % 256]

\* Math.random().toString(36).substring(2, 15), as code units
MathRandomString(seed) == <<48 + seed, 97 + seed, 98 + seed>>

(***************************************************************************)
(* EncryptionService (src/app/utils/encryption.ts).                        *)
(***************************************************************************)
EncryptionService_deriveKey(masterPassword, salt) ==
    Pbkdf2(Utf8Encode(masterPassword), salt, 100000, keyLength)

\* EncryptionService.encrypt with an iv of twelve zero bytes (Buffer.alloc)
EncryptionService_encrypt_fixediv(data, masterPassword, s1, s2) ==
    LET salt == SecureRandomBytes(saltLength, s1)
        iv == Repeat(0, ivLength)
        key == Pbkdf2(Utf8Encode(masterPassword), salt, 100000, keyLength)
        c == GcmEncrypt(key, iv, Utf8Encode(data))
    IN IF ~c.ok THEN Throw("Encryption failed")
       ELSE Ok([encrypted |-> HexEncode(c.val.ct),
                salt |-> HexEncode(salt),
                iv |-> HexEncode(iv),
                authTag |-> HexEncode(c.val.tag)])

\* s1, s2: what crypto.randomBytes returns for the salt and for the iv
EncryptionService_encrypt(data, masterPassword, s1, s2) ==
    LET salt == SecureRandomBytes(saltLength, s1)
        iv == SecureRandomBytes(ivLength, s2)
        key == EncryptionService_deriveKey(masterPassword, salt)
        c == GcmEncrypt(key, iv, Utf8Encode(data))
    IN IF ~c.ok THEN Throw("Encryption failed")
       ELSE IF Len(c.val.tag) # tagLength THEN Throw("Encryption failed")
       ELSE Ok([encrypted |-> HexEncode(c.val.ct),
                salt |-> HexEncode(salt),
                iv |-> HexEncode(iv),
                authTag |-> HexEncode(c.val.tag)])

\* EncryptionService.decrypt reading the plaintext bytes out as 'latin1'
EncryptionService_decrypt_latin1(encryptedData, masterPassword, salt, iv, authTag) ==
    LET saltBuffer == HexDecode(salt)
        ivBuffer == HexDecode(iv)
        authTagBuffer == HexDecode(authTag)
    IN IF Len(saltBuffer) # saltLength \/ Len(ivBuffer) # ivLength
          \/ Len(authTagBuffer) # tagLength
       THEN Throw("Decryption failed")
       ELSE LET key == Pbkdf2(Utf8Encode(masterPassword), saltBuffer, 100000,
                              keyLength)
                d == GcmDecrypt(key, ivBuffer, HexDecode(encryptedData),
                                authTagBuffer)
            IN IF d.ok THEN Ok(d.val) ELSE Throw("Decryption failed")

EncryptionService_decrypt(encryptedData, masterPassword, salt, iv, authTag) ==
    LET saltBuffer == HexDecode(salt)
        ivBuffer == HexDecode(iv)
        authTagBuffer == HexDecode(authTag)
    IN IF Len(saltBuffer) # saltLength \/ Len(ivBuffer) # ivLength
          \/ Len(authTagBuffer) # tagLength
       THEN Throw("Decryption failed")
       ELSE LET key == EncryptionService_deriveKey(masterPassword, saltBuffer)
                d == GcmDecrypt(key, ivBuffer, HexDecode(encryptedData),
                                authTagBuffer)
            IN IF d.ok THEN Ok(Utf8Decode(d.val)) ELSE Throw("Decryption failed")

(***************************************************************************)
(* SecurityService (src/lib/security.ts).                                  *)
(***************************************************************************)
SecurityService_deriveKey(masterPassword, salt) ==
    Pbkdf2(Utf8Encode(masterPassword), salt, iterations, keyLength)

SecurityService_encrypt(data, masterPassword, s1, s2) ==
    LET salt == SecureRandomBytes(saltLength, s1)
        iv == SecureRandomBytes(ivLength, s2)
        key == SecurityService_deriveKey(masterPassword, salt)
        c == GcmEncrypt(key, iv, Utf8Encode(data))
    IN IF ~c.ok THEN c
       ELSE Ok([encrypted |-> HexEncode(c.val.ct),
                salt |-> HexEncode(salt),
                iv |-> HexEncode(iv),
                authTag |-> HexEncode(c.val.tag)])

\* SecurityService.decrypt without decipher.final(): the tag is never compared
SecurityService_decrypt_nofinal(encryptedData, masterPassword, salt, iv, authTag) ==
    LET key == Pbkdf2(Utf8Encode(masterPassword), HexDecode(salt), iterations,
                      keyLength)
    IN Ok(Utf8Decode(GcmXor(key, HexDecode(iv), HexDecode(encryptedData))))

SecurityService_decrypt(encryptedData, masterPassword, salt, iv, authTag) ==
    LET key == SecurityService_deriveKey(masterPassword, HexDecode(salt))
        d == GcmDecrypt(key, HexDecode(iv), HexDecode(encryptedData),
                        HexDecode(authTag))
    IN IF d.ok THEN Ok(Utf8Decode(d.val)) ELSE d

(***************************************************************************)
(* ClientEncryption (src/app/utils/client-encryption.ts): CryptoJS,        *)
(* AES-CBC.  The salt string itself, not the bytes it spells, salts the    *)
(* key.                                                                    *)
(***************************************************************************)
ClientEncryption_deriveKey(masterKey, salt) ==
    Pbkdf2(Utf8Encode(masterKey), Utf8Encode(salt), iterations, keyLength)

ClientEncryption_encrypt(data, masterKey, s1, s2) ==
    LET salt == HexEncode(SecureRandomBytes(cbcRandomLength, s1))
        iv == HexEncode(SecureRandomBytes(cbcRandomLength, s2))
        key == ClientEncryption_deriveKey(masterKey, salt)
        ct == CbcEncrypt(key, HexDecode(iv), Utf8Encode(data))
    IN Ok([encrypted |-> B64EncodeFrom(ct, 1),
           salt |-> salt,
           iv |-> iv,
           authTag |-> Undefined])

ClientEncryption_decrypt(encryptedData, masterKey, salt, iv) ==
    LET key == ClientEncryption_deriveKey(masterKey, salt)
        ct == B64DecodeFrom(StripPad(encryptedData), 1)
        d == Utf8Stringify(CbcDecrypt(key, HexDecode(iv), ct))
    IN IF d.ok THEN d
       ELSE Throw("Failed to decrypt data - check your master key")

(***************************************************************************)
(* The dashboard (src/app/dashboard/page.tsx).  webCrypto is what the      *)
(* browser offers: "full"; "nosubtle", where window.crypto has             *)
(* getRandomValues and no subtle (a page not served over https); "none".   *)
(***************************************************************************)
WebCryptoStates == {"full", "nosubtle", "none"}

SecureClientEncryption_deriveKey(password, salt) ==
    Pbkdf2(Utf8Encode(password), salt, 100000, keyLength)

\* an encrypt that uses the nonce of all zeros every time
SecureClientEncryption_encrypt_fixediv(data, password, webCrypto, s1, s2) ==
    IF webCrypto # "full" THEN Throw("Encryption failed")
    ELSE LET salt == SecureRandomBytes(16, s1)
             iv == Repeat(0, 12)
             key == SecureClientEncryption_deriveKey(password, salt)
             encryptedBuffer == SubtleEncrypt(key, iv, Utf8Encode(data))
         IN IF ~encryptedBuffer.ok THEN Throw("Encryption failed")
            ELSE Ok([encrypted |-> Btoa(encryptedBuffer.val).val,
                     salt |-> Btoa(salt).val,
                     iv |-> Btoa(iv).val,
                     authTag |-> Undefined])

SecureClientEncryption_encrypt(data, password, webCrypto, s1, s2) ==
    IF webCrypto # "full" THEN Throw("Encryption failed")
    ELSE LET salt == SecureRandomBytes(16, s1)
             iv == SecureRandomBytes(12, s2)
             key == SecureClientEncryption_deriveKey(password, salt)
             encryptedBuffer == SubtleEncrypt(key, iv, Utf8Encode(data))
         IN IF ~encryptedBuffer.ok THEN Throw("Encryption failed")
            ELSE Ok([encrypted |-> Btoa(encryptedBuffer.val).val,
                     salt |-> Btoa(salt).val,
                     iv |-> Btoa(iv).val,
                     authTag |-> Undefined])

SecureClientEncryption_decrypt(encryptedData, password, salt, iv, webCrypto) ==
    LET saltBytes == Atob(salt)
        ivBytes == Atob(iv)
        encryptedBytes == Atob(encryptedData)
    IN IF ~saltBytes.ok \/ ~ivBytes.ok \/ ~encryptedBytes.ok
          \/ webCrypto # "full"
       THEN Throw("Decryption failed - check your master key")
       ELSE LET key == SecureClientEncryption_deriveKey(password, saltBytes.val)
                d == SubtleDecrypt(key, ivBytes.val, encryptedBytes.val)
            IN IF d.ok THEN Ok(Utf8Decode(d.val))
               ELSE Throw("Decryption failed - check your master key")

\* the 32 random bytes in base64 without + / =, cut to 32 characters
SecureClientEncryption_generateMasterKey(webCrypto, s) ==
    IF webCrypto = "none" THEN Throw("TypeError")
    ELSE LET b == Btoa(SecureRandomBytes(32, s)).val
             kept == SelectSeq(b, LAMBDA c : c \notin {43, 47, 61})
         IN Ok(SubSeq(kept, 1, IF Len(kept) < 32 THEN Len(kept) ELSE 32))

\* data.charCodeAt(i) ^ key.charCodeAt(i % key.length)
XorWithKey(data, key) ==
    [i \in 1..Len(data) |->
        IF Len(key) = 0 THEN data[i]
        ELSE BitXor(data[i], key[((i - 1) % Len(key)) + 1])]

\* "salt-" and "iv-"
SaltPrefix == <<115, 97, 108, 116, 45>>
IvPrefix == <<105, 118, 45>>
\* "key-"
KeyPrefix == <<107, 101, 121, 45>>
\* "*** Decryption Failed ***"
DecryptionFailedText ==
    <<42, 42, 42, 32, 68, 101, 99, 114, 121, 112, 116, 105, 111, 110, 32,
      70, 97, 105, 108, 101, 100, 32, 42, 42, 42>>

\* m1, m2: what Math.random returns for the salt and for the iv
SimpleClientEncryption_encrypt(data, key, m1, m2) ==
    LET encrypted == Btoa(XorWithKey(data, key))
    IN IF ~encrypted.ok THEN encrypted
       ELSE Ok([encrypted |-> encrypted.val,
                salt |-> SaltPrefix \o MathRandomString(m1),
                iv |-> IvPrefix \o MathRandomString(m2),
                authTag |-> Undefined])

SimpleClientEncryption_decrypt(encryptedData, key, salt, iv) ==
    LET decoded == Atob(encryptedData)
    IN IF decoded.ok THEN Ok(XorWithKey(decoded.val, key))
       ELSE Ok(DecryptionFailedText)

SimpleClientEncryption_generateMasterKey(m1, m2) ==
    KeyPrefix \o MathRandomString(m1) \o MathRandomString(m2)

(***************************************************************************)
(* The other dashboard source (src/unnamed/part_001): the same class,      *)
(* returning salt, iv and ciphertext in one blob.                          *)
(***************************************************************************)
SecureClientEncryption_encrypt_combined(data, password, webCrypto, s1, s2) ==
    IF webCrypto # "full" THEN Throw("Encryption failed")
    ELSE LET salt == SecureRandomBytes(16, s1)
             iv == SecureRandomBytes(12, s2)
             key == SecureClientEncryption_deriveKey(password, salt)
             encryptedBuffer == SubtleEncrypt(key, iv, Utf8Encode(data))
         IN IF ~encryptedBuffer.ok THEN Throw("Encryption failed")
            ELSE Ok([encrypted |-> Btoa(salt \o iv \o encryptedBuffer.val).val,
                     salt |-> Btoa(salt).val,
                     iv |-> Btoa(iv).val,
                     authTag |-> Undefined])

(***************************************************************************)
(* VaultList (src/app/components/VaultList.tsx).                           *)
(***************************************************************************)
\* Uint8Array.slice(from, to)
Slice(b, from, to) ==
    LET end == IF to < Len(b) THEN to ELSE Len(b)
    IN IF from >= end THEN <<>> ELSE SubSeq(b, from + 1, end)

SecureClientDecryption_deriveKey(password, salt) ==
    Pbkdf2(Utf8Encode(password), salt, 100000, keyLength)

SecureClientDecryption_decrypt(encryptedData, password, webCrypto) ==
    LET combined == Atob(encryptedData)
    IN IF ~combined.ok \/ webCrypto # "full"
       THEN Throw("Decryption failed - check your master key")
       ELSE LET salt == Slice(combined.val, 0, 16)
                iv == Slice(combined.val, 16, 28)
                encryptedBytes == Slice(combined.val, 28, Len(combined.val))
                key == SecureClientDecryption_deriveKey(password, salt)
                d == SubtleDecrypt(key, iv, encryptedBytes)
            IN IF d.ok THEN Ok(Utf8Decode(d.val))
               ELSE Throw("Decryption failed - check your master key")

\* SecureClientDecryption.decrypt up to the end of `await this.deriveKey`
SecureClientDecryption_awaitDeriveKey(encryptedData, password, webCrypto) ==
    LET combined == Atob(encryptedData)
    IN IF ~combined.ok \/ webCrypto # "full"
       THEN Throw("Decryption failed - check your master key")
       ELSE Ok(SecureClientDecryption_deriveKey(password,
                                                Slice(combined.val, 0, 16)))

\* SecureClientDecryption.decrypt from there on: `await subtle.decrypt`
\* and the decoding
SecureClientDecryption_awaitDecrypt(encryptedData, key) ==
    LET combined == Atob(encryptedData).val
        iv == Slice(combined, 16, 28)
        encryptedBytes == Slice(combined, 28, Len(combined))
        d == SubtleDecrypt(key, iv, encryptedBytes)
    IN IF d.ok THEN Ok(Utf8Decode(d.val))
       ELSE Throw("Decryption failed - check your master key")

SimpleClientDecryption_decrypt(encryptedData, key) ==
    LET decoded == Atob(encryptedData)
    IN IF decoded.ok THEN Ok(XorWithKey(decoded.val, key))
       ELSE Ok(DecryptionFailedText)

(***************************************************************************)
(* The inputs.                                                             *)
(***************************************************************************)
\* the characters h, e-acute, the euro sign and an emoji (a surrogate
\* pair): 1, 2, 3 and 4 bytes of UTF-8
Chars == {<<104>>, <<233>>, <<8364>>, <<55357, 56832>>}

RECURSIVE StringsUpTo(_)
StringsUpTo(n) ==
    IF n = 0 THEN {<<>>}
    ELSE LET shorter == StringsUpTo(n - 1)
         IN shorter \cup {s \o c : s \in shorter, c \in Chars}

Plaintexts == StringsUpTo(MaxChars)

\* "k1" and "k2-", with the euro sign
MasterSecrets == {<<107, 49>>, <<107, 50, 8364>>}

Services ==
    {"EncryptionService", "SecurityService", "ClientEncryption",
     "SecureClientEncryption", "SecureClientEncryptionCombined",
     "SimpleClientEncryption"}

\* the services whose cipher is the authenticated AES-GCM
GcmServices ==
    {"EncryptionService", "SecurityService", "SecureClientEncryption",
     "SecureClientEncryptionCombined"}

VARIABLES
    envelope,     \* the envelope the last encrypt call returned, with its inputs
    outcome,      \* what the last decrypt call on it did
    calls,        \* the encrypt calls made so far, with what each drew
    drawn,        \* how many values the secure random source has handed out
    webCrypto,    \* what the browser of the mounted dashboard offers
    mounted,      \* the dashboard is mounted
    masterKey,    \* Dashboard state masterKey
    keySource,    \* the random source masterKey came from
    store,        \* the vault items the API holds, by id
    vaultItems,   \* Dashboard state vaultItems
    decryptedPasswords,  \* VaultList state decryptedPasswords, by id
    secureFailed, \* by id: the authenticated decrypt of the item has failed
    showPasswordId,  \* VaultList state showPasswordId, 0 for null
    editingItem,  \* Dashboard state editingItem, as an id, 0 for null
    handed,       \* what the page's onCopyPassword was last called with, for
                  \* which item
    error,        \* Dashboard state error
    lastRequest,  \* the last POST or PUT the page sent to the API
    returned,     \* by id: what the last two decryptPassword calls for the
                  \* item returned, since the list was mounted
    localStorage, \* the browser's localStorage: token and user
    wire,         \* the fetch calls of the last handler that made any
    decrypting,   \* VaultList state decrypting, by id
    frames,       \* by id: the decryptPassword call for the item, where it
                  \* is and what it holds
    queue,        \* the state updates React has not rendered yet
    overlapped,   \* two decryptPassword calls have been in flight at once
    derivations,  \* the deriveKey calls made so far: arguments, result and
                  \* how far the random source had got
    pwd,          \* the string handed to the strength estimators
    strength,     \* what calculateStrength returned for it
    passwordStrength,  \* what calculatePasswordStrength returned for it
    applied,      \* the estimators that have been applied to it
    clipboard,    \* what the system clipboard holds
    copied,       \* AdvancedPasswordGenerator state copied
    pageCopied,   \* Dashboard state copied
    timers,       \* the setTimeout callbacks that have not run yet
    clock,        \* milliseconds since the page was opened
    lastCopy,     \* the last writeText that resolved: when, and what
    collection,   \* the documents of the VaultItem collection
    writes,       \* how many times a document was inserted or modified
    created,      \* by user: the ids of the documents the user has
                  \* created and not deleted
    reply,        \* the last request and the response to it
    env,          \* process.env when the auth module is loaded
    authModule,   \* the auth module: unloaded, loaded, or threw at load
    signed,       \* the tokens AuthService has signed
    verified,     \* what the last verify call returned, and the secret it
                  \* used
    stored,       \* the last encryptForStorage call: arguments and result
    recovered,    \* the last decryptFromStorage call on its package:
                  \* master password and result
    options,      \* AdvancedPasswordGenerator state options
    generatorPassword,  \* AdvancedPasswordGenerator state password
    generatorStrength,  \* AdvancedPasswordGenerator state strength
    generatedPassword,  \* Dashboard state generatedPassword
    generations,  \* how many times generatePassword has run
    userDoc,      \* the User document of the one registered user
    loginReply,   \* the last login request and the response to it
    tokenCall     \* the last addRefreshToken or removeRefreshToken call

svcVars == <<envelope, outcome>>
freshVars == <<calls, drawn>>
vaultVars == <<webCrypto, mounted, masterKey, keySource, store, vaultItems,
               decryptedPasswords, secureFailed, showPasswordId, editingItem,
               handed, error, lastRequest, returned, localStorage, wire>>
concVars == <<decrypting, frames, queue, overlapped>>
kdfVars == <<derivations>>
strengthVars == <<pwd, strength, passwordStrength, applied>>
clipVars == <<clipboard, copied, pageCopied, timers, clock, lastCopy>>
apiVars == <<collection, writes, created, reply>>
authVars == <<env, authModule, signed, verified>>
storageVars == <<stored, recovered>>
genVars == <<options, generatorPassword, generatorStrength,
             generatedPassword, generations>>
loginVars == <<userDoc, loginReply, tokenCall>>

\* what the services' steps leave alone
svcRest == <<freshVars, vaultVars, concVars, kdfVars, strengthVars,
             clipVars, apiVars, authVars, storageVars, genVars, loginVars>>

NoSizes == [salt |-> 0, iv |-> 0, tag |-> 0, key |-> 0]

NoEnvelope == [svc |-> "none", data |-> <<>>, password |-> <<>>,
               out |-> [encrypted |-> <<>>, salt |-> <<>>, iv |-> <<>>,
                        authTag |-> Undefined],
               sizes |-> NoSizes]

NoOutcome == [op |-> "none", password |-> <<>>, field |-> "none", idx |-> 0,
              bit |-> 0, r |-> Throw("")]

\* the encrypt call of a service
EncryptOf(svc, data, password, s1, s2) ==
    CASE svc = "EncryptionService" ->
           EncryptionService_encrypt(data, password, s1, s2)
      [] svc = "SecurityService" ->
           SecurityService_encrypt(data, password, s1, s2)
      [] svc = "ClientEncryption" ->
           ClientEncryption_encrypt(data, password, s1, s2)
      [] svc = "SecureClientEncryption" ->
           SecureClientEncryption_encrypt(data, password, "full", s1, s2)
      [] svc = "SecureClientEncryptionCombined" ->
           SecureClientEncryption_encrypt_combined(data, password, "full", s1, s2)
      [] OTHER ->
           SimpleClientEncryption_encrypt(data, password, s1, s2)

\* the decrypt call that reads what a service's encrypt call wrote
DecryptOf(svc, out, password) ==
    CASE svc = "EncryptionService" ->
           EncryptionService_decrypt(out.encrypted, password, out.salt, out.iv,
                                     out.authTag)
      [] svc = "SecurityService" ->
           SecurityService_decrypt(out.encrypted, password, out.salt, out.iv,
                                   out.authTag)
      [] svc = "ClientEncryption" ->
           ClientEncryption_decrypt(out.encrypted, password, out.salt, out.iv)
      [] svc = "SecureClientEncryption" ->
           SecureClientEncryption_decrypt(out.encrypted, password, out.salt,
                                          out.iv, "full")
      [] svc = "SecureClientEncryptionCombined" ->
           SecureClientDecryption_decrypt(out.encrypted, password, "full")
      [] OTHER ->
           SimpleClientEncryption_decrypt(out.encrypted, password, out.salt,
                                          out.iv)

\* the bytes of an envelope of a GCM service
PartsOf(svc, out) ==
    IF svc \in {"EncryptionService", "SecurityService"}
    THEN [salt |-> HexDecode(out.salt), iv |-> HexDecode(out.iv),
          ct |-> HexDecode(out.encrypted), tag |-> HexDecode(out.authTag)]
    ELSE LET b == Atob(out.encrypted).val
             body == IF svc = "SecureClientEncryption" THEN b
                     ELSE SubSeq(b, 29, Len(b))
         IN [salt |-> Atob(out.salt).val, iv |-> Atob(out.iv).val,
             ct |-> SubSeq(body, 1, Len(body) - 16),
             tag |-> SubSeq(body, Len(body) - 15, Len(body))]

\* the envelope of a GCM service that holds these bytes
EnvelopeOf(svc, p) ==
    IF svc \in {"EncryptionService", "SecurityService"}
    THEN [encrypted |-> HexEncode(p.ct), salt |-> HexEncode(p.salt),
          iv |-> HexEncode(p.iv), authTag |-> HexEncode(p.tag)]
    ELSE [encrypted |-> IF svc = "SecureClientEncryption"
                        THEN Btoa(p.ct \o p.tag).val
                        ELSE Btoa(p.salt \o p.iv \o p.ct \o p.tag).val,
          salt |-> Btoa(p.salt).val, iv |-> Btoa(p.iv).val,
          authTag |-> Undefined]

\* the byte lengths of the salt, the nonce and the tag an encrypt call
\* returned, and of the key it encrypted with
SizesOf(svc, out, password) ==
    CASE svc \in {"EncryptionService", "SecurityService"} ->
           [salt |-> Len(HexDecode(out.salt)), iv |-> Len(HexDecode(out.iv)),
            tag |-> Len(HexDecode(out.authTag)),
            key |-> Len(IF svc = "EncryptionService"
                        THEN EncryptionService_deriveKey(password,
                                                         HexDecode(out.salt))
                        ELSE SecurityService_deriveKey(password,
                                                       HexDecode(out.salt)))]
      [] svc = "ClientEncryption" ->
           [salt |-> Len(HexDecode(out.salt)), iv |-> Len(HexDecode(out.iv)),
            tag |-> 0,
            key |-> Len(ClientEncryption_deriveKey(password, out.salt))]
      [] svc \in {"SecureClientEncryption", "SecureClientEncryptionCombined"} ->
           [salt |-> Len(Atob(out.salt).val), iv |-> Len(Atob(out.iv).val),
            tag |-> Len(PartsOf(svc, out).tag),
            key |-> Len(SecureClientEncryption_deriveKey(password,
                                                         Atob(out.salt).val))]
      [] OTHER ->
           [salt |-> Len(out.salt), iv |-> Len(out.iv), tag |-> 0,
            key |-> Len(password)]

TamperFields == {"ct", "iv", "tag"}

\* no encrypt call has been made
FreshIdle ==
    /\ calls = <<>>
    /\ drawn = 0

NoHanded == [id |-> 0, password |-> Undefined]

NoRequest == [method |-> "none", cipher |-> "none", rnd |-> "none",
              notes |-> <<>>]

ItemIds == 1..MaxItems

\* useState<Record<string, string>>({})
NoPasswords == [id \in ItemIds |-> Undefined]
NoFailures == [id \in ItemIds |-> FALSE]
NoReturns == [id \in ItemIds |-> <<>>]

\* the access token and the user record the login page has stored
TokenText == <<116, 111, 107>>
UserText == <<123, 125>>

\* localStorage after login, and after handleLogout
LoggedIn == [token |-> TokenText, user |-> UserText]
LoggedOut == [token |-> Undefined, user |-> Undefined]

\* deriveKey has not been called
KdfIdle == derivations = <<>>

\* AdvancedPasswordGenerator state strength before a password is generated
NoStrength == [score |-> 0, feedback |-> <<>>]

\* no estimator has been applied to anything
StrengthIdle ==
    /\ pwd = <<>>
    /\ strength = NoStrength
    /\ passwordStrength = 0
    /\ applied = {}

\* no dashboard is mounted and the vault is empty
VaultEmpty ==
    /\ mounted = FALSE
    /\ masterKey = <<>>
    /\ keySource = "none"
    /\ store = <<>>
    /\ vaultItems = <<>>
    /\ decryptedPasswords = NoPasswords
    /\ secureFailed = NoFailures
    /\ showPasswordId = 0
    /\ editingItem = 0
    /\ handed = NoHanded
    /\ error = ""
    /\ lastRequest = NoRequest
    /\ returned = NoReturns
    /\ localStorage = LoggedIn
    /\ wire = <<>>

\* the items of the list when two decryptPassword calls are followed
ConcIds == 1..2

NoFrame == [pc |-> "idle", caller |-> "none", key |-> <<>>, ret |-> Undefined,
            n |-> 0]

\* no decryptPassword call is followed step by step
ConcIdle ==
    /\ decrypting = [id \in ConcIds |-> FALSE]
    /\ frames = [id \in ConcIds |-> NoFrame]
    /\ queue = <<>>
    /\ overlapped = FALSE

\* nothing has been copied
NoCopy == [at |-> -1, password |-> <<>>]

ClipIdle ==
    /\ clipboard = <<>>
    /\ copied = FALSE
    /\ pageCopied = FALSE
    /\ timers = {}
    /\ clock = 0
    /\ lastCopy = NoCopy

\* the users of the vault API
Users == 1..2

NoReply == [method |-> "none", userId |-> 0, search |-> <<>>,
            category |-> <<>>, status |-> 0, data |-> <<>>, id |-> 0,
            error |-> ""]

\* the collection is empty and no request has been made
ApiIdle ==
    /\ collection = {}
    /\ writes = 0
    /\ created = [u \in Users |-> {}]
    /\ reply = NoReply

NoVerified == [ok |-> FALSE, userId |-> 0, type |-> "", secret |-> ""]

\* the auth module has not been loaded
AuthIdle ==
    /\ env = [NODE_ENV |-> "undefined", JWT_SECRET |-> "undefined",
              JWT_REFRESH_SECRET |-> "undefined"]
    /\ authModule = "unloaded"
    /\ signed = {}
    /\ verified = NoVerified

NoStored == [data |-> <<>>, masterPassword |-> <<>>,
             r |-> [ok |-> FALSE, val |-> <<>>, err |-> ""]]
NoRecovered == [masterPassword |-> <<>>,
                r |-> [ok |-> FALSE, val |-> <<>>, err |-> ""]]

\* nothing has been packaged for storage
StorageIdle ==
    /\ stored = NoStored
    /\ recovered = NoRecovered

\* useState<PasswordOptions>({ ... })
DefaultOptions ==
    [length |-> 16, includeUppercase |-> TRUE, includeLowercase |-> TRUE,
     includeNumbers |-> TRUE, includeSymbols |-> TRUE,
     excludeAmbiguous |-> FALSE, excludeSimilar |-> TRUE,
     customChars |-> <<>>]

\* the generator has not been used
GenIdle ==
    /\ options = DefaultOptions
    /\ generatorPassword = <<>>
    /\ generatorStrength = NoStrength
    /\ generatedPassword = <<>>
    /\ generations = 0

\* the registered user: id, email "a", password "p", TOTP secret "s"
UserId == 1
UserEmail == <<97>>
UserPassword == <<112>>
TwoFactorSecret == <<115>>

\* bcrypt.hash(password, salt)
BcryptHash(password) == <<36>> \o password

\* the document of the user as registered, with or without 2FA
NewUser(enabled) ==
    [_id |-> UserId, email |-> UserEmail,
     passwordHash |-> BcryptHash(UserPassword),
     twoFactorEnabled |-> enabled,
     twoFactorSecret |-> IF enabled THEN TwoFactorSecret ELSE Undefined,
     lastLogin |-> 0, refreshTokens |-> <<>>]

\* no token
NoToken == [userId |-> 0, type |-> "none", secret |-> "", iat |-> 0]

NoLoginReply ==
    [op |-> "none", email |-> <<>>, twoFactorToken |-> Undefined, now |-> 0,
     status |-> 0, error |-> "", requiresTwoFactor |-> FALSE,
     accessToken |-> NoToken, cookie |-> NoToken]

NoTokenCall == [op |-> "none", token |-> NoToken, dropped |-> 0]

\* nobody has logged in
LoginIdle ==
    /\ userDoc = NewUser(FALSE)
    /\ loginReply = NoLoginReply
    /\ tokenCall = NoTokenCall

VaultIdle ==
    /\ webCrypto = "full"
    /\ VaultEmpty
    /\ ConcIdle

SvcInit ==
    /\ envelope = NoEnvelope
    /\ outcome = NoOutcome
    /\ FreshIdle
    /\ VaultIdle
    /\ KdfIdle
    /\ StrengthIdle
    /\ ClipIdle
    /\ ApiIdle
    /\ AuthIdle
    /\ StorageIdle
    /\ GenIdle
    /\ LoginIdle

\* an encrypt call of one of the services; seed is the state of its random
\* source, which the draw of the salt moves on
Encrypt(svc, data, password, seed) ==
    /\ envelope.svc = "none"
    /\ LET r == EncryptOf(svc, data, password, seed, seed + 1)
       IN /\ r.ok
          /\ envelope' = [svc |-> svc, data |-> data, password |-> password,
                          out |-> r.val,
                          sizes |-> SizesOf(svc, r.val, password)]
    /\ outcome' = NoOutcome
    /\ UNCHANGED svcRest

\* the matching decrypt call, with some master secret
Decrypt(password) ==
    /\ envelope.svc # "none"
    /\ outcome.op = "none"
    /\ outcome' = [op |-> "decrypt", password |-> password, field |-> "none",
                   idx |-> 0, bit |-> 0,
                   r |-> DecryptOf(envelope.svc, envelope.out, password)]
    /\ UNCHANGED <<envelope, svcRest>>

\* the matching decrypt call, with the right master secret, after one bit
\* of the stored envelope has changed
DecryptTampered(field, idx, bit) ==
    /\ envelope.svc \in GcmServices
    /\ outcome.op = "none"
    /\ outcome' =
         [op |-> "tampered", password |-> envelope.password,
          field |-> field, idx |-> idx, bit |-> bit,
          r |-> DecryptOf(envelope.svc,
                  EnvelopeOf(envelope.svc,
                      [PartsOf(envelope.svc, envelope.out)
                          EXCEPT ![field] = FlipBit(@, idx, bit)]),
                  envelope.password)]
    /\ UNCHANGED <<envelope, svcRest>>

\* the caller drops the envelope
Discard ==
    /\ envelope.svc # "none"
    /\ envelope' = NoEnvelope
    /\ outcome' = NoOutcome
    /\ UNCHANGED svcRest

SvcNext ==
    \/ \E svc \in Services, data \in Plaintexts, password \in MasterSecrets,
          seed \in Seeds :
            Encrypt(svc, data, password, seed)
    \/ \E password \in MasterSecrets : Decrypt(password)
    \/ /\ envelope.svc \in GcmServices
       /\ outcome.op = "none"
       /\ \E field \in TamperFields :
         \E idx \in 1..Len(PartsOf(envelope.svc, envelope.out)[field]),
            bit \in 0..7 :
              DecryptTampered(field, idx, bit)
    \/ Discard

vars == <<svcVars, freshVars, vaultVars, concVars, kdfVars, strengthVars,
          clipVars, apiVars, authVars, storageVars, genVars, loginVars>>

Spec == SvcInit /\ [][SvcNext]_vars

(***************************************************************************)
(* The claims about the services.                                          *)
(***************************************************************************)
\* C1: decrypting the envelope EncryptionService.encrypt or
\* SecurityService.encrypt returned, with the master secret it was made
\* with, returns exactly the plaintext that was encrypted.
C1_RoundTrip ==
    (/\ outcome.op = "decrypt"
     /\ envelope.svc \in {"EncryptionService", "SecurityService"}
     /\ outcome.password = envelope.password)
    => (outcome.r.ok /\ outcome.r.val = envelope.data)

\* a multi-byte plaintext has made the round trip through EncryptionService
C1_Witness ==
    /\ outcome.op = "decrypt"
    /\ envelope.svc = "EncryptionService"
    /\ outcome.password = envelope.password
    /\ envelope.data = <<55357, 56832>>
    /\ outcome.r.ok
    /\ outcome.r.val = envelope.data

\* C2: decrypting an envelope with a master secret other than the one it
\* was made with ends in an error, at every decrypt entry point.
C2_WrongKeyRejected ==
    (outcome.op = "decrypt" /\ outcome.password # envelope.password)
    => ~outcome.r.ok

\* C3: after one bit of the ciphertext, the nonce or the tag of an envelope
\* has changed, the authenticated decrypt with the right master secret ends
\* in an error and returns no plaintext.
C3_TamperDetected ==
    outcome.op = "tampered" => ~outcome.r.ok

\* the VaultList decrypt has refused a blob whose nonce had one bit changed
C3_Witness ==
    /\ outcome.op = "tampered"
    /\ envelope.svc = "SecureClientEncryptionCombined"
    /\ outcome.field = "iv"
    /\ Len(envelope.data) > 0
    /\ ~outcome.r.ok

\* C10: every envelope an encrypt operation returned has a 16-byte salt, a
\* 12-byte nonce and a 16-byte tag, made with a 32-byte key.
C10_EnvelopeSizes ==
    envelope.svc # "none"
    => envelope.sizes = [salt |-> 16, iv |-> 12, tag |-> 16, key |-> 32]

(***************************************************************************)
(* A sequence of encrypt calls.  The secure random source is taken at its  *)
(* word: it never hands out the same value twice; its k-th draw is the     *)
(* value of seed k.                                                        *)
(***************************************************************************)
\* at most MaxCalls encrypt calls are made
MaxCalls == 2

\* the services that draw the salt and the nonce from the secure source
FreshServices == Services \ {"SimpleClientEncryption"}

\* the plaintexts of one-byte characters
FreshPlaintexts == {p \in Plaintexts : \A i \in 1..Len(p) : p[i] < 128}

\* the salt and the nonce an encrypt call returned, in bytes, and the key
\* it derived
DrawnOf(svc, out, password) ==
    CASE svc = "EncryptionService" ->
           [salt |-> HexDecode(out.salt), iv |-> HexDecode(out.iv),
            key |-> EncryptionService_deriveKey(password, HexDecode(out.salt))]
      [] svc = "SecurityService" ->
           [salt |-> HexDecode(out.salt), iv |-> HexDecode(out.iv),
            key |-> SecurityService_deriveKey(password, HexDecode(out.salt))]
      [] svc = "ClientEncryption" ->
           [salt |-> HexDecode(out.salt), iv |-> HexDecode(out.iv),
            key |-> ClientEncryption_deriveKey(password, out.salt)]
      [] OTHER ->
           [salt |-> Atob(out.salt).val, iv |-> Atob(out.iv).val,
            key |-> SecureClientEncryption_deriveKey(password,
                                                     Atob(out.salt).val)]

\* what the sequence of calls leaves alone
freshRest == <<svcVars, vaultVars, concVars, kdfVars, strengthVars,
               clipVars, apiVars, authVars, storageVars, genVars, loginVars>>

FreshInit ==
    /\ FreshIdle
    /\ envelope = NoEnvelope
    /\ outcome = NoOutcome
    /\ VaultIdle
    /\ KdfIdle
    /\ StrengthIdle
    /\ ClipIdle
    /\ ApiIdle
    /\ AuthIdle
    /\ StorageIdle
    /\ GenIdle
    /\ LoginIdle

\* one more encrypt call; the random source hands out its next two values
EncryptCall(svc, data, password) ==
    /\ Len(calls) < MaxCalls
    /\ LET r == EncryptOf(svc, data, password, drawn + 1, drawn + 2)
       IN /\ r.ok
          /\ calls' = Append(calls,
                         [svc |-> svc, data |-> data, password |-> password,
                          out |-> r.val,
                          drawn |-> DrawnOf(svc, r.val, password)])
    /\ drawn' = drawn + 2
    /\ UNCHANGED freshRest

FreshNext ==
    \E svc \in FreshServices, data \in FreshPlaintexts,
       password \in MasterSecrets :
         EncryptCall(svc, data, password)

FreshSpec == FreshInit /\ [][FreshNext]_vars

\* C7: any two encrypt calls have different salts and different nonces, and
\* no pair of derived key and nonce is used by two calls.
C7_SaltNonceFresh ==
    \A i \in 1..Len(calls), j \in 1..Len(calls) :
        i < j =>
          /\ calls[i].drawn.salt # calls[j].drawn.salt
          /\ calls[i].drawn.iv # calls[j].drawn.iv
          /\ <<calls[i].drawn.key, calls[i].drawn.iv>>
               # <<calls[j].drawn.key, calls[j].drawn.iv>>

\* the same plaintext has been encrypted twice with the same master secret
\* by EncryptionService, and the two envelopes differ
C7_Witness ==
    /\ Len(calls) = 2
    /\ calls[1].svc = "EncryptionService"
    /\ calls[2].svc = "EncryptionService"
    /\ calls[1].data = calls[2].data
    /\ calls[1].password = calls[2].password
    /\ calls[1].out.salt # calls[2].out.salt
    /\ calls[1].out.iv # calls[2].out.iv
    /\ calls[1].out.encrypted # calls[2].out.encrypted

(***************************************************************************)
(* The dashboard and its vault (src/app/dashboard/page.tsx, VaultList.tsx, *)
(* the vault item routes).  The user is logged in; title and username are  *)
(* filled in.                                                              *)
(***************************************************************************)
\* "h" and the euro sign: the password input is required, so not empty
VaultPasswords == {<<104>>, <<8364>>}

\* no notes, or "n"
VaultNotes == {<<>>, <<110>>}

vaultRest == <<svcVars, freshVars, concVars, kdfVars, strengthVars,
               clipVars, apiVars, authVars, storageVars, genVars, loginVars>>

\* the try block of handleCreateItem / handleUpdateItem and its catch: r is
\* the state of the random source in use when the handler starts, and each
\* draw moves the source on
EncryptFields(password, notes, key, w, r) ==
    LET passwordResult == SecureClientEncryption_encrypt(password, key, w, r, r + 1)
        notesResult == SecureClientEncryption_encrypt(notes, key, w, r + 2, r + 3)
    IN IF passwordResult.ok /\ (notes = <<>> \/ notesResult.ok)
       THEN Ok([encryptedPassword |-> passwordResult.val.encrypted,
                encryptedNotes |-> IF notes = <<>> THEN Undefined
                                   ELSE notesResult.val.encrypted,
                cipher |-> "gcm", rnd |-> "secure", notes |-> notes,
                salt |-> passwordResult.val.salt,
                iv |-> passwordResult.val.iv, seed |-> r])
       ELSE LET passwordSimple == SimpleClientEncryption_encrypt(password, key, r, r + 1)
                notesSimple == SimpleClientEncryption_encrypt(notes, key, r + 2, r + 3)
            IN IF ~passwordSimple.ok THEN passwordSimple
               ELSE IF notes # <<>> /\ ~notesSimple.ok THEN notesSimple
               ELSE Ok([encryptedPassword |-> passwordSimple.val.encrypted,
                        encryptedNotes |-> IF notes = <<>> THEN Undefined
                                           ELSE notesSimple.val.encrypted,
                        cipher |-> "xor", rnd |-> "math", notes |-> notes,
                        salt |-> passwordSimple.val.salt,
                        iv |-> passwordSimple.val.iv, seed |-> r])

\* a POST or PUT: the cipher that made its encryptedPassword and
\* encryptedNotes, the random source of their salts and nonces, and the
\* notes the form was submitted with
RequestOf(method, f) ==
    [method |-> method, cipher |-> f.cipher, rnd |-> f.rnd,
     notes |-> f.notes]

\* a created item has replaced nothing
NoReplaced == [salt |-> <<>>, iv |-> <<>>, seed |-> 0]

\* the stored item, with the password and the master key it was made from,
\* the salt and the nonce passwordResult had, the state of the random source
\* they were drawn in, and the same of the envelope the item has replaced
ItemOf(f, password, key) ==
    [encryptedPassword |-> f.encryptedPassword,
     encryptedNotes |-> f.encryptedNotes,
     cipher |-> f.cipher, password |-> password, key |-> key,
     malformed |-> FALSE,
     salt |-> f.salt, iv |-> f.iv, seed |-> f.seed, replaced |-> NoReplaced]

\* what the form hands over besides password and notes
FormTitle == <<84>>
FormUsername == <<85>>
FormUrl == <<>>
FormCategory == <<71, 101, 110>>

BearerPrefix == <<66, 101, 97, 114, 101, 114, 32>>
JsonContentType == <<106, 115, 111, 110>>
ItemsUrl == <<47, 105, 116, 101, 109, 115>>

\* ApiService.makeRequest: the fetch it makes; body is the list of the
\* fields of the JSON text, in order
MakeRequest(url, method, body) ==
    [url |-> url, method |-> method,
     headers |-> <<<<"Content-Type", JsonContentType>>,
                   <<"Authorization", BearerPrefix \o localStorage.token>>>>,
     body |-> body]

\* JSON.stringify of an object literal, as the list of its members: a
\* member whose value is undefined is left out
IsDefinedMember(member) == member[2] # Undefined
JsonMembers(members) == SelectSeq(members, IsDefinedMember)

\* what JSON.parse of the text gives for body[name]
BodyField(body, name) ==
    IF \E i \in 1..Len(body) : body[i][1] = name
    THEN body[CHOOSE i \in 1..Len(body) : body[i][1] = name][2]
    ELSE Undefined

\* a body that carries the master key along
CreateBody_withkey(f) ==
    JsonMembers(<<<<"title", FormTitle>>, <<"username", FormUsername>>,
                  <<"encryptedPassword", f.encryptedPassword>>,
                  <<"encryptedNotes", f.encryptedNotes>>,
                  <<"url", FormUrl>>, <<"category", masterKey>>>>)

\* the body of the POST of handleCreateItem; tags is an empty list and
\* strength a number
CreateBody(f) ==
    JsonMembers(<<<<"title", FormTitle>>, <<"username", FormUsername>>,
                  <<"encryptedPassword", f.encryptedPassword>>,
                  <<"encryptedNotes", f.encryptedNotes>>,
                  <<"url", FormUrl>>, <<"category", FormCategory>>>>)

\* the body of the PUT of handleUpdateItem
UpdateBody(f) ==
    JsonMembers(<<<<"title", FormTitle>>, <<"username", FormUsername>>,
                  <<"encryptedPassword", f.encryptedPassword>>,
                  <<"encryptedNotes", f.encryptedNotes>>,
                  <<"url", FormUrl>>, <<"category", FormCategory>>>>)

\* the PUT route assigning every field whether the body has it or not
PutField_always(old, body, name) == BodyField(body, name)

\* the PUT route's if (updates[field] !== undefined) vaultItem[field] =
\* updates[field]: the value the field has afterwards
PutField(old, body, name) ==
    IF BodyField(body, name) # Undefined THEN BodyField(body, name) ELSE old

\* the url of an item: '/api/vault/items/' and its id
ItemUrl(id) == ItemsUrl \o <<47, 48 + id>>

\* loadVaultItems: a GET without a body
LoadRequest == MakeRequest(ItemsUrl, "GET", <<>>)

VaultInit ==
    /\ webCrypto \in WebCryptoStates
    /\ VaultEmpty
    /\ envelope = NoEnvelope
    /\ outcome = NoOutcome
    /\ FreshIdle
    /\ ConcIdle
    /\ KdfIdle
    /\ StrengthIdle
    /\ ClipIdle
    /\ ApiIdle
    /\ AuthIdle
    /\ StorageIdle
    /\ GenIdle
    /\ LoginIdle

\* Dashboard useEffect: the master key is generated, the items are loaded;
\* s is the state of the secure random source, m that of Math.random
Mount(s, m) ==
    /\ ~mounted
    /\ localStorage.token # Undefined
    /\ localStorage.user # Undefined
    /\ mounted' = TRUE
    /\ LET key == SecureClientEncryption_generateMasterKey(webCrypto, s)
       IN IF key.ok
          THEN masterKey' = key.val /\ keySource' = "secure"
          ELSE /\ masterKey' = SimpleClientEncryption_generateMasterKey(m, m + 1)
               /\ keySource' = "math"
    /\ vaultItems' = store
    /\ error' = ""
    /\ decryptedPasswords' = NoPasswords
    /\ secureFailed' = NoFailures
    /\ showPasswordId' = 0
    /\ editingItem' = 0
    /\ returned' = NoReturns
    /\ wire' = <<LoadRequest>>
    /\ UNCHANGED <<webCrypto, store, handed, lastRequest, localStorage,
                   vaultRest>>

\* the page is closed or reloaded: what React held is gone
Unmount ==
    /\ mounted
    /\ mounted' = FALSE
    /\ masterKey' = <<>>
    /\ keySource' = "none"
    /\ vaultItems' = <<>>
    /\ decryptedPasswords' = NoPasswords
    /\ secureFailed' = NoFailures
    /\ showPasswordId' = 0
    /\ editingItem' = 0
    /\ error' = ""
    /\ handed' = NoHanded
    /\ lastRequest' = NoRequest
    /\ returned' = NoReturns
    /\ wire' = <<>>
    /\ UNCHANGED <<webCrypto, store, localStorage, vaultRest>>

\* handleLogout: token and user are removed and the page is left
HandleLogout ==
    /\ mounted
    /\ localStorage' = LoggedOut
    /\ mounted' = FALSE
    /\ masterKey' = <<>>
    /\ keySource' = "none"
    /\ vaultItems' = <<>>
    /\ decryptedPasswords' = NoPasswords
    /\ secureFailed' = NoFailures
    /\ showPasswordId' = 0
    /\ editingItem' = 0
    /\ error' = ""
    /\ handed' = NoHanded
    /\ lastRequest' = NoRequest
    /\ returned' = NoReturns
    /\ wire' = <<>>
    /\ UNCHANGED <<webCrypto, store, vaultRest>>

\* handleCreateItem, with the POST route and loadVaultItems.  The form
\* replaces the list while it is open, so the list's state starts anew.
HandleCreateItem(password, notes, r) ==
    /\ mounted
    /\ editingItem = 0
    /\ Len(store) < MaxItems
    /\ LET f == EncryptFields(password, notes, masterKey, webCrypto, r)
       IN IF ~f.ok
          THEN /\ error' = f.err
               /\ UNCHANGED <<store, vaultItems, lastRequest, wire>>
          ELSE /\ lastRequest' = RequestOf("POST", f.val)
               /\ IF f.val.encryptedPassword = <<>>
                  THEN /\ error' = "Title, username, and password are required"
                       /\ wire' = <<MakeRequest(ItemsUrl, "POST",
                                                CreateBody(f.val))>>
                       /\ UNCHANGED <<store, vaultItems>>
                  ELSE /\ store' = Append(store, ItemOf(f.val, password, masterKey))
                       /\ vaultItems' = store'
                       /\ error' = ""
                       /\ wire' = <<MakeRequest(ItemsUrl, "POST",
                                                CreateBody(f.val)),
                                    LoadRequest>>
    /\ decryptedPasswords' = NoPasswords
    /\ secureFailed' = NoFailures
    /\ showPasswordId' = 0
    /\ returned' = NoReturns
    /\ UNCHANGED <<webCrypto, mounted, masterKey, keySource, editingItem,
                   handed, localStorage, vaultRest>>

\* handleEditItem
HandleEditItem(id) ==
    /\ mounted
    /\ editingItem = 0
    /\ id \in 1..Len(vaultItems)
    /\ editingItem' = id
    /\ decryptedPasswords' = NoPasswords
    /\ secureFailed' = NoFailures
    /\ showPasswordId' = 0
    /\ returned' = NoReturns
    /\ UNCHANGED <<webCrypto, mounted, masterKey, keySource, store, vaultItems,
                   handed, error, lastRequest, localStorage, wire, vaultRest>>

\* handleUpdateItem, with the PUT route and loadVaultItems
HandleUpdateItem(password, notes, r) ==
    /\ mounted
    /\ editingItem # 0
    /\ LET f == EncryptFields(password, notes, masterKey, webCrypto, r)
       IN IF ~f.ok
          THEN /\ error' = f.err
               /\ UNCHANGED <<store, vaultItems, lastRequest, editingItem,
                              wire>>
          ELSE /\ lastRequest' = RequestOf("PUT", f.val)
               /\ wire' = <<MakeRequest(ItemUrl(editingItem), "PUT",
                                        UpdateBody(f.val))>>
                           \o IF editingItem > Len(store) THEN <<>>
                              ELSE <<LoadRequest>>
               /\ IF editingItem > Len(store)
                  THEN /\ error' = "Vault item not found"
                       /\ UNCHANGED <<store, vaultItems, editingItem>>
                  ELSE /\ store' =
                            [store EXCEPT ![editingItem] =
                               [ItemOf(f.val, password, masterKey) EXCEPT
                                  !.encryptedPassword =
                                     PutField(store[editingItem]
                                                 .encryptedPassword,
                                              UpdateBody(f.val),
                                              "encryptedPassword"),
                                  !.encryptedNotes =
                                     PutField(store[editingItem]
                                                 .encryptedNotes,
                                              UpdateBody(f.val),
                                              "encryptedNotes"),
                                  !.replaced =
                                     [salt |-> store[editingItem].salt,
                                      iv |-> store[editingItem].iv,
                                      seed |-> store[editingItem].seed]]]
                       /\ vaultItems' = store'
                       /\ editingItem' = 0
                       /\ error' = ""
    /\ UNCHANGED <<webCrypto, mounted, masterKey, keySource, decryptedPasswords,
                   secureFailed, showPasswordId, handed, returned,
                   localStorage, vaultRest>>

\* decryptedPasswords[item.id] is truthy
IsCached(id) ==
    decryptedPasswords[id] # Undefined /\ decryptedPasswords[id] # <<>>

\* decryptPassword storing the blob it read, not the password it returns
DecryptPassword_cacheblob(id) ==
    IF IsCached(id)
    THEN [password |-> decryptedPasswords[id], cache |-> decryptedPasswords,
          failed |-> secureFailed]
    ELSE LET secure == SecureClientDecryption_decrypt(
                           vaultItems[id].encryptedPassword, masterKey, webCrypto)
             password == IF secure.ok THEN secure.val
                         ELSE SimpleClientDecryption_decrypt(
                                  vaultItems[id].encryptedPassword, masterKey).val
         IN [password |-> password,
             cache |-> [decryptedPasswords EXCEPT
                          ![id] = vaultItems[id].encryptedPassword],
             failed |-> [secureFailed EXCEPT ![id] = ~secure.ok]]

\* VaultList decryptPassword: what it returns, what it leaves in
\* decryptedPasswords, and whether the authenticated decrypt has failed
DecryptPassword(id) ==
    IF IsCached(id)
    THEN [password |-> decryptedPasswords[id], cache |-> decryptedPasswords,
          failed |-> secureFailed]
    ELSE LET secure == SecureClientDecryption_decrypt(
                           vaultItems[id].encryptedPassword, masterKey, webCrypto)
             password == IF secure.ok THEN secure.val
                         ELSE SimpleClientDecryption_decrypt(
                                  vaultItems[id].encryptedPassword, masterKey).val
         IN [password |-> password,
             cache |-> [decryptedPasswords EXCEPT ![id] = password],
             failed |-> [secureFailed EXCEPT ![id] = ~secure.ok]]

\* the last two values decryptPassword returned for the item
Returned(id, password) ==
    [returned EXCEPT ![id] = IF @ = <<>> THEN <<password>>
                             ELSE <<@[Len(@)], password>>]

\* togglePasswordVisibility
TogglePasswordVisibility(id) ==
    /\ mounted
    /\ editingItem = 0
    /\ id \in 1..Len(vaultItems)
    /\ IF showPasswordId = id
       THEN /\ showPasswordId' = 0
            /\ UNCHANGED <<decryptedPasswords, secureFailed, returned>>
       ELSE /\ showPasswordId' = id
            /\ IF IsCached(id)
               THEN UNCHANGED <<decryptedPasswords, secureFailed, returned>>
               ELSE LET d == DecryptPassword(id)
                    IN /\ decryptedPasswords' = d.cache
                       /\ secureFailed' = d.failed
                       /\ returned' = Returned(id, d.password)
    /\ UNCHANGED <<webCrypto, mounted, masterKey, keySource, store, vaultItems,
                   editingItem, handed, error, lastRequest, localStorage, wire,
                   vaultRest>>

\* VaultList handleCopyPassword, calling Dashboard handleCopyPassword
HandleCopyPassword(id) ==
    /\ mounted
    /\ editingItem = 0
    /\ id \in 1..Len(vaultItems)
    /\ LET d == DecryptPassword(id)
       IN /\ handed' = [id |-> id, password |-> d.password]
          /\ decryptedPasswords' = d.cache
          /\ secureFailed' = d.failed
          /\ returned' = Returned(id, d.password)
    /\ UNCHANGED <<webCrypto, mounted, masterKey, keySource, store, vaultItems,
                   showPasswordId, editingItem, error, lastRequest,
                   localStorage, wire, vaultRest>>

CorruptionKinds == {"short", "badchar"}

\* a stored blob cut to its first four characters, or with a character
\* that is not base64 in front
Corrupted(kind, blob) ==
    IF kind = "short" THEN SubSeq(blob, 1, 4) ELSE <<42>> \o Tail(blob)

\* the stored encryptedPassword of an item is damaged while no page is open
Corrupt(id, kind) ==
    /\ ~mounted
    /\ id \in 1..Len(store)
    /\ ~store[id].malformed
    /\ store' = [store EXCEPT
                   ![id].encryptedPassword = Corrupted(kind, @),
                   ![id].malformed = TRUE]
    /\ UNCHANGED <<webCrypto, mounted, masterKey, keySource, vaultItems,
                   decryptedPasswords, secureFailed, showPasswordId,
                   editingItem, handed, error, lastRequest, returned,
                   localStorage, wire, vaultRest>>

VaultNext ==
    \/ \E s \in Seeds, m \in Seeds : Mount(s, m)
    \/ Unmount
    \/ HandleLogout
    \/ \E password \in VaultPasswords, notes \in VaultNotes, r \in Seeds :
         HandleCreateItem(password, notes, r)
    \/ \E id \in ItemIds : HandleEditItem(id)
    \/ \E password \in VaultPasswords, notes \in VaultNotes, r \in Seeds :
         HandleUpdateItem(password, notes, r)
    \/ \E id \in ItemIds : TogglePasswordVisibility(id)
    \/ \E id \in ItemIds : HandleCopyPassword(id)
    \/ \E id \in ItemIds, kind \in CorruptionKinds : Corrupt(id, kind)

VaultSpec == VaultInit /\ [][VaultNext]_vars

(***************************************************************************)
(* The claims about the dashboard and its vault.                           *)
(***************************************************************************)
\* C4: when the authenticated decrypt of an item's encryptedPassword has
\* failed, nothing is stored in decryptedPasswords for the item and
\* onCopyPassword gets nothing but the failure text.
C4_FailClosed ==
    \A id \in ItemIds :
        secureFailed[id] =>
          /\ decryptedPasswords[id] = Undefined
          /\ handed.id = id => handed.password = DecryptionFailedText

\* C5: every POST and PUT carries fields made by the authenticated AES-GCM
\* cipher, and so does every stored item: when that cipher fails nothing is
\* sent.
C5_NoWeakerFallback ==
    /\ lastRequest.method # "none" => lastRequest.cipher = "gcm"
    /\ \A i \in 1..Len(store) : store[i].cipher = "gcm"

\* C6: every undamaged blob the dashboard has stored after encrypting with
\* AES-GCM is base64(salt || nonce || ciphertext || tag): VaultList's
\* SecureClientDecryption.decrypt, slicing it at 16 and 28, recovers the
\* password that was entered, with the master key it was made with.
C6_CanonicalBlob ==
    \A i \in 1..Len(store) :
        (store[i].cipher = "gcm" /\ ~store[i].malformed) =>
          SecureClientDecryption_decrypt(store[i].encryptedPassword,
                                         store[i].key, "full")
            = Ok(store[i].password)

\* C8: the master key and the salt and nonce of every request come from the
\* secure random source, never from Math.random.
C8_SecureRandomOnly ==
    /\ keySource # "math"
    /\ lastRequest.rnd # "math"

\* C9: for an item whose stored encryptedPassword is malformed, the
\* VaultList decrypt path yields no plaintext: nothing is stored in
\* decryptedPasswords and no string is handed to onCopyPassword.
C9_MalformedRejected ==
    \A id \in 1..Len(vaultItems) :
        vaultItems[id].malformed =>
          /\ decryptedPasswords[id] = Undefined
          /\ handed.id = id => handed.password = Undefined

\* C11: two decryptPassword calls for the same item under the same master
\* key return the same string: the first call leaves nothing behind (in
\* decryptedPasswords or elsewhere) that changes what the second returns.
C11_DecryptIdempotent ==
    \A id \in ItemIds :
        Len(returned[id]) = 2 => returned[id][1] = returned[id][2]

\* decryptPassword has been called twice for an item under the master key
\* the item was made with, and has returned the item's password both times,
\* the second time from decryptedPasswords
C11_Witness ==
    \E id \in 1..Len(vaultItems) :
        /\ masterKey = vaultItems[id].key
        /\ Len(returned[id]) = 2
        /\ returned[id][1] = vaultItems[id].password
        /\ returned[id][2] = vaultItems[id].password
        /\ decryptedPasswords[id] = vaultItems[id].password

\* s has t as a substring
Contains(s, t) ==
    \E i \in 0..(Len(s) - Len(t)) : SubSeq(s, i + 1, i + Len(t)) = t

\* the strings a fetch puts on the network: the url, the header values and
\* the values of the body
StringsOf(q) ==
    {q.url} \cup {q.headers[i][2] : i \in 1..Len(q.headers)}
            \cup {q.body[i][2] : i \in 1..Len(q.body)}

\* C12: the master key of a mounted dashboard is in no url, header or body
\* field of a request the page has sent and in no entry of localStorage.
C12_MasterKeyConfined ==
    masterKey # <<>> =>
      /\ \A i \in 1..Len(wire) :
            \A v \in StringsOf(wire[i]) : ~Contains(v, masterKey)
      /\ ~Contains(localStorage.token, masterKey)
      /\ ~Contains(localStorage.user, masterKey)

\* a POST with a password encrypted under the master key has been sent,
\* followed by the GET of loadVaultItems
C12_Witness ==
    /\ masterKey # <<>>
    /\ Len(wire) = 2
    /\ wire[1].method = "POST"
    /\ wire[2].method = "GET"
    /\ Len(store) > 0
    /\ store[Len(store)].key = masterKey
    /\ wire[1].body[3][2] = store[Len(store)].encryptedPassword

\* C13: the encryptedPassword a PUT has stored comes from an encrypt call of
\* its own: unless the random source was in the state it had been in for
\* the envelope that was replaced, salt and nonce differ from that
\* envelope's; and the stored blob is the blob of the PUT body, whole.
C13_UpdateMakesNewEnvelope ==
    /\ \A i \in 1..Len(store) :
          (store[i].replaced # NoReplaced
             /\ store[i].replaced.seed # store[i].seed) =>
               /\ store[i].salt # store[i].replaced.salt
               /\ store[i].iv # store[i].replaced.iv
    /\ \A i \in 1..Len(store) :
          (Len(wire) = 2 /\ wire[1].method = "PUT"
             /\ wire[1].url = ItemUrl(i)) =>
               store[i].encryptedPassword = wire[1].body[3][2]

\* an AES-GCM item has been replaced through a PUT by one made in another
\* state of the random source
C13_Witness ==
    /\ Len(store) > 0
    /\ store[1].cipher = "gcm"
    /\ store[1].replaced # NoReplaced
    /\ store[1].replaced.seed # store[1].seed
    /\ Len(wire) = 2
    /\ wire[1].method = "PUT"
    /\ wire[1].url = ItemUrl(1)
    /\ store[1].encryptedPassword = wire[1].body[3][2]

(***************************************************************************)
(* Two decryptPassword calls of VaultList, step by step.  A call runs      *)
(* until its next await; React collects the state updates and renders      *)
(* them later; a handler sees the state of the last render.                *)
(***************************************************************************)
\* at most MaxQueue state updates wait for a render
MaxQueue == 8

\* the handlers are called at most MaxClicks times for an item
MaxClicks == 2

\* "h" and "i!"
ConcPasswords == {<<104>>, <<105, 33>>}

\* the blobs the list may hold: of page.tsx's encrypt, of the encrypt of
\* part_001 (salt and nonce in front), of the XOR fallback
ConcKinds(w) == IF w = "full" THEN {"page", "combined"} ELSE {"xor"}

\* the item handleCreateItem has stored for a password
ConcItem(kind, password, key, w, r) ==
    LET f == EncryptFields(password, <<>>, key, w, r).val
    IN IF kind = "combined"
       THEN [ItemOf(f, password, key) EXCEPT
               !.encryptedPassword =
                  SecureClientEncryption_encrypt_combined(
                      password, key, w, r, r + 1).val.encrypted,
               !.cipher = "gcm-combined"]
       ELSE ItemOf(f, password, key)

\* the master key of useEffect
ConcKey(w) ==
    LET key == SecureClientEncryption_generateMasterKey(w, 1)
    IN IF key.ok THEN key.val
       ELSE SimpleClientEncryption_generateMasterKey(1, 2)

concRest == <<svcVars, freshVars, webCrypto, mounted, masterKey, keySource,
              store, vaultItems, secureFailed, editingItem, error,
              lastRequest, returned, localStorage, wire, kdfVars,
              strengthVars, clipVars, apiVars, authVars, storageVars,
              genVars, loginVars>>

\* a mounted dashboard whose list shows two items made in this session
ConcInit ==
    /\ webCrypto \in WebCryptoStates
    /\ mounted = TRUE
    /\ masterKey = ConcKey(webCrypto)
    /\ keySource = IF webCrypto = "none" THEN "math" ELSE "secure"
    /\ \E kind \in ConcKinds(webCrypto), p2 \in ConcPasswords :
            store = <<ConcItem(kind, <<104>>, masterKey, webCrypto, 1),
                      ConcItem(kind, p2, masterKey, webCrypto, 3)>>
    /\ vaultItems = store
    /\ decryptedPasswords = [id \in ConcIds |-> Undefined]
    /\ secureFailed = NoFailures
    /\ showPasswordId = 0
    /\ editingItem = 0
    /\ handed = NoHanded
    /\ error = ""
    /\ lastRequest = RequestOf("POST", [cipher |-> IF webCrypto = "full"
                                                   THEN "gcm" ELSE "xor",
                                        rnd |-> IF webCrypto = "full"
                                                THEN "secure" ELSE "math",
                                        notes |-> <<>>])
    /\ returned = NoReturns
    /\ localStorage = LoggedIn
    /\ wire = <<MakeRequest(ItemsUrl, "POST", CreateBody(store[2])),
                LoadRequest>>
    /\ ConcIdle
    /\ envelope = NoEnvelope
    /\ outcome = NoOutcome
    /\ FreshIdle
    /\ KdfIdle
    /\ StrengthIdle
    /\ ClipIdle
    /\ ApiIdle
    /\ AuthIdle
    /\ StorageIdle
    /\ GenIdle
    /\ LoginIdle

\* setDecrypting(prev => ({ ...prev, [item.id]: value }))
SetDecrypting(prev, id, value) == [prev EXCEPT ![id] = value]

\* an updater that keeps none of the entries of the other items
SetDecryptedPasswords_alone(prev, id, password) ==
    [i \in DOMAIN prev |-> IF i = id THEN password ELSE Undefined]

\* setDecryptedPasswords(prev => ({ ...prev, [item.id]: password }))
SetDecryptedPasswords(prev, id, password) == [prev EXCEPT ![id] = password]

\* the state after React has applied the updates q[i], q[i + 1], ... to st
RECURSIVE ApplyFrom(_, _, _)
ApplyFrom(q, i, st) ==
    IF i > Len(q) THEN st
    ELSE ApplyFrom(q, i + 1,
           CASE q[i].state = "decrypting" ->
                  [st EXCEPT !.decrypting = SetDecrypting(@, q[i].id, q[i].value)]
             [] q[i].state = "decryptedPasswords" ->
                  [st EXCEPT !.decryptedPasswords =
                               SetDecryptedPasswords(@, q[i].id, q[i].value)]
             [] OTHER ->
                  [st EXCEPT !.showPasswordId = q[i].value])

\* React renders: the waiting updates are applied in the order they came
Render ==
    /\ queue # <<>>
    /\ LET st == ApplyFrom(queue, 1,
                     [decrypting |-> decrypting,
                      decryptedPasswords |-> decryptedPasswords,
                      showPasswordId |-> showPasswordId])
       IN /\ decrypting' = st.decrypting
          /\ decryptedPasswords' = st.decryptedPasswords
          /\ showPasswordId' = st.showPasswordId
    /\ queue' = <<>>
    /\ UNCHANGED <<frames, overlapped, handed, concRest>>

\* a decryptPassword call is between its start and its return
InFlight(id) == frames[id].pc \in {"deriveKey", "subtleDecrypt"}

\* decryptPassword up to its first await, after the updates q of its
\* caller: the cached password is returned, or decrypting is set and
\* SecureClientDecryption.decrypt begins
CallDecryptPassword(id, caller, q) ==
    /\ IF IsCached(id)
       THEN /\ frames' = [frames EXCEPT ![id] =
                            [pc |-> "resume", caller |-> caller, key |-> <<>>,
                             ret |-> decryptedPasswords[id],
                             n |-> frames[id].n + 1]]
            /\ queue' = queue \o q
            /\ UNCHANGED overlapped
       ELSE /\ frames' = [frames EXCEPT ![id] =
                            [pc |-> "deriveKey", caller |-> caller,
                             key |-> <<>>, ret |-> Undefined,
                             n |-> frames[id].n + 1]]
            /\ queue' = queue \o q \o
                           <<[state |-> "decrypting", id |-> id, value |-> TRUE]>>
            /\ overlapped' = (overlapped \/ \E other \in ConcIds \ {id} :
                                               InFlight(other))

\* togglePasswordVisibility, up to the first await of decryptPassword
ConcToggle(id) ==
    /\ frames[id].pc = "idle"
    /\ frames[id].n < MaxClicks
    /\ Len(queue) + 4 <= MaxQueue
    /\ IF showPasswordId = id
       THEN /\ queue' = Append(queue, [state |-> "showPasswordId", id |-> 0,
                                       value |-> 0])
            /\ frames' = [frames EXCEPT ![id].n = @ + 1]
            /\ UNCHANGED overlapped
       ELSE IF IsCached(id)
       THEN /\ queue' = Append(queue, [state |-> "showPasswordId", id |-> 0,
                                       value |-> id])
            /\ frames' = [frames EXCEPT ![id].n = @ + 1]
            /\ UNCHANGED overlapped
       ELSE CallDecryptPassword(id, "toggle",
                <<[state |-> "showPasswordId", id |-> 0, value |-> id]>>)
    /\ UNCHANGED <<decrypting, decryptedPasswords, showPasswordId, handed,
                   concRest>>

\* handleCopyPassword, up to the first await of decryptPassword
ConcCopy(id) ==
    /\ frames[id].pc = "idle"
    /\ frames[id].n < MaxClicks
    /\ Len(queue) + 4 <= MaxQueue
    /\ CallDecryptPassword(id, "copy", <<>>)
    /\ UNCHANGED <<decrypting, decryptedPasswords, showPasswordId, handed,
                   concRest>>

\* decryptPassword from the end of its await to its return: the fallback
\* if the secure decrypt has thrown, setDecryptedPasswords, finally
Settle(id, secure) ==
    LET password == IF secure.ok THEN secure.val
                    ELSE SimpleClientDecryption_decrypt(
                             vaultItems[id].encryptedPassword, masterKey).val
    IN /\ queue' = queue \o
                     <<[state |-> "decryptedPasswords", id |-> id,
                        value |-> password],
                       [state |-> "decrypting", id |-> id, value |-> FALSE]>>
       /\ frames' = [frames EXCEPT ![id].pc = "resume", ![id].ret = password]

\* `await this.deriveKey(password, salt)` is over
AwaitDeriveKey(id) ==
    /\ frames[id].pc = "deriveKey"
    /\ LET key == SecureClientDecryption_awaitDeriveKey(
                      vaultItems[id].encryptedPassword, masterKey, webCrypto)
       IN IF key.ok
          THEN /\ frames' = [frames EXCEPT ![id].pc = "subtleDecrypt",
                                           ![id].key = key.val]
               /\ UNCHANGED queue
          ELSE Settle(id, key)
    /\ UNCHANGED <<decrypting, decryptedPasswords, showPasswordId, handed,
                   overlapped, concRest>>

\* `await window.crypto.subtle.decrypt(...)` is over
AwaitDecrypt(id) ==
    /\ frames[id].pc = "subtleDecrypt"
    /\ Settle(id, SecureClientDecryption_awaitDecrypt(
                      vaultItems[id].encryptedPassword, frames[id].key))
    /\ UNCHANGED <<decrypting, decryptedPasswords, showPasswordId, handed,
                   overlapped, concRest>>

\* the caller goes on after `await decryptPassword(item)`:
\* handleCopyPassword hands the password to onCopyPassword
Resume(id) ==
    /\ frames[id].pc = "resume"
    /\ frames' = [frames EXCEPT ![id].pc = "idle"]
    /\ IF frames[id].caller = "copy"
       THEN handed' = [id |-> id, password |-> frames[id].ret]
       ELSE UNCHANGED handed
    /\ UNCHANGED <<decrypting, decryptedPasswords, showPasswordId, queue,
                   overlapped, concRest>>

ConcNext ==
    \/ \E id \in ConcIds : ConcToggle(id)
    \/ \E id \in ConcIds : ConcCopy(id)
    \/ \E id \in ConcIds : AwaitDeriveKey(id)
    \/ \E id \in ConcIds : AwaitDecrypt(id)
    \/ \E id \in ConcIds : Resume(id)
    \/ Render

ConcSpec == ConcInit /\ [][ConcNext]_vars

\* what decryptPassword returns for the item when no other call runs
DecryptAlone(id) ==
    LET secure == SecureClientDecryption_decrypt(
                      vaultItems[id].encryptedPassword, masterKey, webCrypto)
    IN IF secure.ok THEN secure.val
       ELSE SimpleClientDecryption_decrypt(
                vaultItems[id].encryptedPassword, masterKey).val

\* no call is under way and every update has been rendered
Quiet ==
    /\ \A id \in ConcIds : frames[id].pc = "idle"
    /\ queue = <<>>

MaxDerivations == 2

KdfServices == {"EncryptionService", "SecurityService"}

\* the empty string and the master secrets
KdfSecrets == {<<>>} \cup MasterSecrets

\* two salts of crypto.randomBytes(16) and a salt of one byte
KdfSalts == {SecureRandomBytes(saltLength, 1), SecureRandomBytes(saltLength, 2),
             <<0>>}

\* a deriveKey whose iteration count follows the random source
DeriveKeyOf_drawn(svc, masterPassword, salt) ==
    Pbkdf2(Utf8Encode(masterPassword), salt, iterations + drawn, keyLength)

\* deriveKey of a class
DeriveKeyOf(svc, masterPassword, salt) ==
    IF svc = "EncryptionService"
    THEN EncryptionService_deriveKey(masterPassword, salt)
    ELSE SecurityService_deriveKey(masterPassword, salt)

kdfRest == <<svcVars, vaultVars, concVars, strengthVars, clipVars, apiVars,
             authVars, storageVars, genVars, loginVars>>

KdfInit ==
    /\ KdfIdle
    /\ StrengthIdle
    /\ ClipIdle
    /\ ApiIdle
    /\ AuthIdle
    /\ StorageIdle
    /\ GenIdle
    /\ LoginIdle
    /\ FreshIdle
    /\ envelope = NoEnvelope
    /\ outcome = NoOutcome
    /\ VaultIdle

\* a deriveKey call
DeriveKey(svc, masterPassword, salt) ==
    /\ Len(derivations) < MaxDerivations
    /\ derivations' = Append(derivations,
                          [svc |-> svc, masterPassword |-> masterPassword,
                           salt |-> salt,
                           key |-> DeriveKeyOf(svc, masterPassword, salt),
                           drawn |-> drawn])
    /\ UNCHANGED <<freshVars, kdfRest>>

\* an encrypt call of the same class in between
KdfEncrypt(svc, data, masterPassword) ==
    /\ EncryptCall(svc, data, masterPassword)
    /\ UNCHANGED kdfVars

KdfNext ==
    \/ \E svc \in KdfServices, masterPassword \in KdfSecrets,
          salt \in KdfSalts :
            DeriveKey(svc, masterPassword, salt)
    \/ \E svc \in KdfServices : KdfEncrypt(svc, <<104>>, <<107, 49>>)

KdfSpec == KdfInit /\ [][KdfNext]_vars

HasLower(s) == \E i \in 1..Len(s) : s[i] \in 97..122
HasUpper(s) == \E i \in 1..Len(s) : s[i] \in 65..90
HasDigit(s) == \E i \in 1..Len(s) : s[i] \in 48..57
HasOther(s) ==
    \E i \in 1..Len(s) : s[i] \notin (97..122) \cup (65..90) \cup (48..57)

\* how a pattern with the i flag and no u flag sees a string: a letter of
\* the pattern matches its two ASCII cases and nothing else
IgnoreCase(s) ==
    [i \in 1..Len(s) |-> IF s[i] \in 65..90 THEN s[i] + 32 ELSE s[i]]

varietyScore(s) ==
    (IF HasLower(s) THEN 1 ELSE 0) + (IF HasUpper(s) THEN 1 ELSE 0)
    + (IF HasDigit(s) THEN 1 ELSE 0) + (IF HasOther(s) THEN 1 ELSE 0)

charSetSize(s) ==
    (IF HasLower(s) THEN 26 ELSE 0) + (IF HasUpper(s) THEN 26 ELSE 0)
    + (IF HasDigit(s) THEN 10 ELSE 0) + (IF HasOther(s) THEN 32 ELSE 0)

\* Math.log2 of a character set size, in millionths, rounded down
Log2Micro(n) ==
    CASE n = 10 -> 3321928
      [] n = 26 -> 4700439
      [] n = 32 -> 5000000
      [] n = 36 -> 5169925
      [] n = 42 -> 5392317
      [] n = 52 -> 5700439
      [] n = 58 -> 5857980
      [] n = 62 -> 5954196
      [] n = 68 -> 6087462
      [] n = 84 -> 6392317
      [] n = 94 -> 6554588

\* charSetSize > 0 and s.length * Math.log2(charSetSize) > t; for the
\* sizes above and every length up to 300 the comparison in millionths
\* is the comparison of the doubles, and a longer string has more than
\* 300 * log2(10) > 996 bits, which is above every t that is compared with
EntropyAbove(s, t) ==
    /\ charSetSize(s) > 0
    /\ \/ Len(s) > 300
       \/ Len(s) * Log2Micro(charSetSize(s)) > t * 1000000

\* commonPatterns: /123456/, /password/i, /qwerty/i, /abc123/, /111111/,
\* /000000/
commonPatterns ==
    << [text |-> <<49, 50, 51, 52, 53, 54>>, ignoreCase |-> FALSE],
       [text |-> <<112, 97, 115, 115, 119, 111, 114, 100>>,
        ignoreCase |-> TRUE],
       [text |-> <<113, 119, 101, 114, 116, 121>>, ignoreCase |-> TRUE],
       [text |-> <<97, 98, 99, 49, 50, 51>>, ignoreCase |-> FALSE],
       [text |-> <<49, 49, 49, 49, 49, 49>>, ignoreCase |-> FALSE],
       [text |-> <<48, 48, 48, 48, 48, 48>>, ignoreCase |-> FALSE] >>

\* pattern.test(s)
PatternTest(pattern, s) ==
    IF pattern.ignoreCase THEN Contains(IgnoreCase(s), pattern.text)
    ELSE Contains(s, pattern.text)

HasCommonPattern(s) ==
    \E k \in 1..Len(commonPatterns) : PatternTest(commonPatterns[k], s)

\* /(abc|bcd|...|xyz)/i.test(s) || /(012|123|...|789)/.test(s): the
\* alternatives are the 24 runs of three letters and the 8 runs of three
\* digits in rising order
HasSequential(s) ==
    \/ \E i \in 1..(Len(s) - 2) :
          /\ IgnoreCase(s)[i] \in 97..120
          /\ IgnoreCase(s)[i + 1] = IgnoreCase(s)[i] + 1
          /\ IgnoreCase(s)[i + 2] = IgnoreCase(s)[i] + 2
    \/ \E i \in 1..(Len(s) - 2) :
          /\ s[i] \in 48..55
          /\ s[i + 1] = s[i] + 1
          /\ s[i + 2] = s[i] + 2

\* /(.)\1{2,}/.test(s): the dot matches no line terminator
HasRepeated(s) ==
    \E i \in 1..(Len(s) - 2) :
        /\ s[i] \notin {10, 13, 8232, 8233}
        /\ s[i + 1] = s[i]
        /\ s[i + 2] = s[i]

TooShortFeedback == "Password should be at least 8 characters long"
VarietyFeedback ==
    "Add more character types (uppercase, lowercase, numbers, symbols)"
CommonFeedback == "Avoid common patterns and sequences"
SequentialFeedback == "Avoid sequential characters"
RepeatedFeedback == "Avoid repeated characters"
StrongFeedback == "Strong password!"

\* calculateStrength, up to the common patterns check: the score and the
\* feedback of the length, variety and entropy steps
ScoreBeforeChecks(s) ==
    (IF Len(s) < 8 THEN 0
     ELSE IF Len(s) < 12 THEN 1
     ELSE IF Len(s) < 16 THEN 2
     ELSE 3)
    + varietyScore(s)
    + (IF EntropyAbove(s, 100) THEN 3
       ELSE IF EntropyAbove(s, 80) THEN 2
       ELSE IF EntropyAbove(s, 60) THEN 1
       ELSE 0)

FeedbackBeforeChecks(s) ==
    (IF Len(s) < 8 THEN <<TooShortFeedback>> ELSE <<>>)
    \o (IF varietyScore(s) < 3 THEN <<VarietyFeedback>> ELSE <<>>)

\* score = Math.max(0, score - n)
Deduct_nofloor(score, n) == score - n
Deduct(score, n) == IF score - n > 0 THEN score - n ELSE 0

calculateStrength_nocommon(s) ==
    LET afterSequential == IF HasSequential(s)
                           THEN Deduct(ScoreBeforeChecks(s), 1)
                           ELSE ScoreBeforeChecks(s)
        afterRepeated == IF HasRepeated(s) THEN Deduct(afterSequential, 1)
                         ELSE afterSequential
        feedback == FeedbackBeforeChecks(s)
                    \o (IF HasSequential(s) THEN <<SequentialFeedback>>
                        ELSE <<>>)
                    \o (IF HasRepeated(s) THEN <<RepeatedFeedback>>
                        ELSE <<>>)
    IN [score |-> IF afterRepeated < 10 THEN afterRepeated ELSE 10,
        feedback |-> IF Len(feedback) > 0 THEN feedback
                     ELSE <<StrongFeedback>>]
calculateStrength(s) ==
    LET afterCommon == IF HasCommonPattern(s)
                       THEN Deduct(ScoreBeforeChecks(s), 2)
                       ELSE ScoreBeforeChecks(s)
        afterSequential == IF HasSequential(s) THEN Deduct(afterCommon, 1)
                           ELSE afterCommon
        afterRepeated == IF HasRepeated(s) THEN Deduct(afterSequential, 1)
                         ELSE afterSequential
        feedback == FeedbackBeforeChecks(s)
                    \o (IF HasCommonPattern(s) THEN <<CommonFeedback>>
                        ELSE <<>>)
                    \o (IF HasSequential(s) THEN <<SequentialFeedback>>
                        ELSE <<>>)
                    \o (IF HasRepeated(s) THEN <<RepeatedFeedback>>
                        ELSE <<>>)
    IN [score |-> IF afterRepeated < 10 THEN afterRepeated ELSE 10,
        feedback |-> IF Len(feedback) > 0 THEN feedback
                     ELSE <<StrongFeedback>>]

getStrengthText(score) ==
    IF score <= 3 THEN "Very Weak"
    ELSE IF score <= 6 THEN "Moderate"
    ELSE IF score <= 8 THEN "Strong"
    ELSE "Very Strong"

\* ClientEncryption.calculatePasswordStrength, before Math.min
PasswordScoreSum(s) ==
    (IF Len(s) >= 8 THEN 25 ELSE 0) + (IF Len(s) >= 12 THEN 15 ELSE 0)
    + (IF Len(s) >= 16 THEN 10 ELSE 0)
    + (IF HasLower(s) THEN 10 ELSE 0) + (IF HasUpper(s) THEN 10 ELSE 0)
    + (IF HasDigit(s) THEN 10 ELSE 0) + (IF HasOther(s) THEN 10 ELSE 0)
    + (IF EntropyAbove(s, 100) THEN 20
       ELSE IF EntropyAbove(s, 80) THEN 15
       ELSE IF EntropyAbove(s, 60) THEN 10
       ELSE IF EntropyAbove(s, 40) THEN 5
       ELSE 0)

ClientEncryption_calculatePasswordStrength(s) ==
    IF PasswordScoreSum(s) < 100 THEN PasswordScoreSum(s) ELSE 100

\* the strings the estimators are applied to: up to MaxChunks pieces, each
\* a single character of one class, a denylisted word, a run, eight mixed
\* characters or the long phrase
MaxChunks == 3

LongPhrase ==
    <<84, 114, 48, 117, 98, 52, 100, 111, 114, 38, 51, 120, 116, 114, 97, 45,
      108, 111, 110, 103, 45, 112, 104, 114, 97, 115, 101, 33>>

PasswordWord == <<112, 97, 115, 115, 119, 111, 114, 100>>

Chunks ==
    { <<107>>, <<81>>, <<55>>, <<35>>, <<233>>, <<10, 10, 10>>,
      PasswordWord, <<80, 97, 115, 115, 87, 111, 114, 100>>,
      <<113, 119, 101, 114, 116, 121>>, <<49, 50, 51, 52, 53, 54>>,
      <<97, 98, 99>>, <<49, 49, 49>>,
      <<109, 116, 82, 119, 57, 36, 76, 112>>, LongPhrase }

RECURSIVE Concat(_)
Concat(q) == IF q = <<>> THEN <<>> ELSE Head(q) \o Concat(Tail(q))

StrengthInputs ==
    { Concat(q) : q \in UNION { [1..n -> Chunks] : n \in 0..MaxChunks } }

strengthRest == <<svcVars, freshVars, vaultVars, concVars, kdfVars,
                  clipVars, apiVars, authVars, storageVars, genVars,
                  loginVars>>

StrengthInit ==
    /\ pwd \in StrengthInputs
    /\ strength = NoStrength
    /\ passwordStrength = 0
    /\ applied = {}
    /\ envelope = NoEnvelope
    /\ outcome = NoOutcome
    /\ FreshIdle
    /\ VaultIdle
    /\ KdfIdle
    /\ ClipIdle
    /\ ApiIdle
    /\ AuthIdle
    /\ StorageIdle
    /\ GenIdle
    /\ LoginIdle

\* generatePassword's calculateStrength(generatedPassword); setStrength
CalculateStrength ==
    /\ "calculateStrength" \notin applied
    /\ strength' = calculateStrength(pwd)
    /\ applied' = applied \cup {"calculateStrength"}
    /\ UNCHANGED <<pwd, passwordStrength, strengthRest>>

\* a call of ClientEncryption.calculatePasswordStrength
CalculatePasswordStrength ==
    /\ "calculatePasswordStrength" \notin applied
    /\ passwordStrength' = ClientEncryption_calculatePasswordStrength(pwd)
    /\ applied' = applied \cup {"calculatePasswordStrength"}
    /\ UNCHANGED <<pwd, strength, strengthRest>>

StrengthNext ==
    \/ CalculateStrength
    \/ CalculatePasswordStrength

StrengthSpec == StrengthInit /\ [][StrengthNext]_vars

Entries(q) == {q[i] : i \in 1..Len(q)}

\* C16: calculateStrength gives the empty string score 0 and a feedback
\* list that is not empty, gives "Tr0ub4dor&3xtra-long-phrase!" a score
\* of the top band, and gives "password" a score of the lowest band and
\* the feedback entry about common patterns.
C16_BoundaryCases ==
    "calculateStrength" \in applied =>
        /\ pwd = <<>> =>
              /\ strength.score = 0
              /\ Len(strength.feedback) > 0
        /\ pwd = LongPhrase =>
              getStrengthText(strength.score) = "Very Strong"
        /\ pwd = PasswordWord =>
              /\ getStrengthText(strength.score) = "Very Weak"
              /\ CommonFeedback \in Entries(strength.feedback)

\* calculateStrength has been applied to "password": score 0, and the
\* feedback asks for more character types and names the common pattern
C16_Witness ==
    /\ "calculateStrength" \in applied
    /\ pwd = PasswordWord
    /\ strength = [score |-> 0,
                   feedback |-> <<VarietyFeedback, CommonFeedback>>]

\* C17: for every input string calculateStrength returns a score in 0..10
\* and a feedback list that is not empty, the score is in 0..10 before the
\* pattern checks as well, and calculatePasswordStrength returns a score
\* in 0..100.
C17_TotalAndBounded ==
    /\ "calculateStrength" \in applied =>
          /\ strength.score \in 0..10
          /\ ScoreBeforeChecks(pwd) \in 0..10
          /\ Len(strength.feedback) > 0
    /\ "calculatePasswordStrength" \in applied =>
          passwordStrength \in 0..100

\* both estimators have been applied to "111123456": the three
\* deductions of calculateStrength add up to more than the score of 2 they
\* start from and the score stays at 0
C17_Witness ==
    /\ applied = {"calculateStrength", "calculatePasswordStrength"}
    /\ pwd = <<49, 49, 49, 49, 50, 51, 52, 53, 54>>
    /\ ScoreBeforeChecks(pwd) = 2
    /\ HasCommonPattern(pwd) /\ HasSequential(pwd) /\ HasRepeated(pwd)
    /\ strength.score = 0
    /\ passwordStrength = 35

\* a run of three equal characters
RepeatedRun(s) ==
    \E i \in 1..(Len(s) - 2) : s[i + 1] = s[i] /\ s[i + 2] = s[i]

\* what a score is at most after a deduction of n that stops at 0
AtMostAfter(score, n) == IF score - n > 0 THEN score - n ELSE 0

\* C18: for every password with a denylisted substring, a sequential run
\* or a run of a repeated character, calculateStrength returns a score
\* lowered by the penalty of that pattern and the feedback entry of that
\* pattern, and calculatePasswordStrength returns a score lower than the
\* sum of its additions (or 0).
C18_PenaltiesInEachEstimator ==
    /\ "calculateStrength" \in applied =>
          /\ HasCommonPattern(pwd) =>
                /\ strength.score <= AtMostAfter(ScoreBeforeChecks(pwd), 2)
                /\ CommonFeedback \in Entries(strength.feedback)
          /\ HasSequential(pwd) =>
                /\ strength.score <= AtMostAfter(ScoreBeforeChecks(pwd), 1)
                /\ SequentialFeedback \in Entries(strength.feedback)
          /\ RepeatedRun(pwd) =>
                /\ strength.score <= AtMostAfter(ScoreBeforeChecks(pwd), 1)
                /\ RepeatedFeedback \in Entries(strength.feedback)
    /\ "calculatePasswordStrength" \in applied =>
          ((HasCommonPattern(pwd) \/ HasSequential(pwd) \/ RepeatedRun(pwd))
           => passwordStrength
                <= AtMostAfter(IF PasswordScoreSum(pwd) < 100
                               THEN PasswordScoreSum(pwd) ELSE 100, 1))

\* ------------------------------------------------------------------
\* Copy to clipboard: copyToClipboard of the generator component and
\* handleCopyPassword of the dashboard, with the timers they start.

\* the delays of the two setTimeout calls, and the delay the README
\* gives, in milliseconds
GeneratorDelay == 15000
PageDelay == 3000
ClearAfter == 15000

\* the clock moves in steps of ClockStep up to MaxClock; at most MaxTimers
\* timers are pending
ClockStep == 1000
MaxClock == 20000
MaxTimers == 2

ClipPasswords == {<<104>>, <<105, 33>>}

clipRest == <<svcVars, freshVars, vaultVars, concVars, kdfVars,
              strengthVars, apiVars, authVars, storageVars, genVars,
              loginVars>>

ClipInit ==
    /\ ClipIdle
    /\ ApiIdle
    /\ AuthIdle
    /\ StorageIdle
    /\ GenIdle
    /\ LoginIdle
    /\ StrengthIdle
    /\ envelope = NoEnvelope
    /\ outcome = NoOutcome
    /\ FreshIdle
    /\ VaultIdle
    /\ KdfIdle

\* copyToClipboard of the generator with password as its state; granted:
\* navigator.clipboard.writeText resolves, otherwise it rejects and the
\* catch block logs
CopyToClipboard(password, granted) ==
    /\ Cardinality(timers) < MaxTimers
    /\ IF granted
       THEN /\ clipboard' = password
            /\ copied' = TRUE
            /\ timers' = timers \cup {[at |-> clock + GeneratorDelay,
                                       target |-> "generator"]}
            /\ lastCopy' = [at |-> clock, password |-> password]
            /\ UNCHANGED <<pageCopied, clock>>
       ELSE UNCHANGED clipVars
    /\ UNCHANGED clipRest

\* handleCopyPassword of the dashboard, called by the list with the
\* decrypted password
PageHandleCopyPassword(password, granted) ==
    /\ Cardinality(timers) < MaxTimers
    /\ IF granted
       THEN /\ clipboard' = password
            /\ pageCopied' = TRUE
            /\ timers' = timers \cup {[at |-> clock + PageDelay,
                                       target |-> "page"]}
            /\ lastCopy' = [at |-> clock, password |-> password]
            /\ UNCHANGED <<copied, clock>>
       ELSE UNCHANGED clipVars
    /\ UNCHANGED clipRest

\* a timer that is due runs its callback: () => setCopied(false)
TimerFires(t) ==
    /\ t \in timers
    /\ t.at <= clock
    /\ timers' = timers \ {t}
    /\ IF t.target = "generator"
       THEN copied' = FALSE /\ UNCHANGED pageCopied
       ELSE pageCopied' = FALSE /\ UNCHANGED copied
    /\ UNCHANGED <<clipboard, clock, lastCopy, clipRest>>

\* time passes, once the timers that are due have run
Tick ==
    /\ clock < MaxClock
    /\ \A t \in timers : t.at > clock
    /\ clock' = clock + ClockStep
    /\ UNCHANGED <<clipboard, copied, pageCopied, timers, lastCopy, clipRest>>

\* every timer the two handlers can start
AllTimers ==
    [at : {k * ClockStep :
              k \in 0..((MaxClock + GeneratorDelay) \div ClockStep)},
     target : {"generator", "page"}]

ClipNext ==
    \/ \E password \in ClipPasswords, granted \in BOOLEAN :
          CopyToClipboard(password, granted)
    \/ \E password \in ClipPasswords, granted \in BOOLEAN :
          PageHandleCopyPassword(password, granted)
    \/ \E t \in AllTimers : TimerFires(t)
    \/ Tick

ClipSpec == ClipInit /\ [][ClipNext]_vars

\* C19: more than 15 seconds after a password has been copied, by the
\* generator or by the dashboard, the clipboard does not hold that
\* password any more.
C19_ClipboardAutoClear ==
    (lastCopy # NoCopy /\ clock > lastCopy.at + ClearAfter)
        => clipboard # lastCopy.password

\* ------------------------------------------------------------------
\* The vault API with more than one user: GET and POST of
\* /api/vault/items, PUT and DELETE of /api/vault/items/[id], over the
\* VaultItem collection.

\* at most MaxWrites documents are inserted or modified
MaxWrites == 3

\* the Authorization header of a request: none, or Bearer with the access
\* token of a user, or Bearer with a token that was not signed with
\* JWT_SECRET
NoHeader == [bearer |-> FALSE, token |-> 0]
AuthHeaders == {NoHeader} \cup {[bearer |-> TRUE, token |-> t] : t \in 0..2}

\* AuthService.verifyAccessToken: jwt.verify returns the payload the token
\* was signed with, or throws
AuthService_verifyAccessToken(token) ==
    IF token \in Users
    THEN [ok |-> TRUE, val |-> [userId |-> token, type |-> "access"], err |-> ""]
    ELSE [ok |-> FALSE, val |-> [userId |-> 0, type |-> ""],
          err |-> "invalid signature"]

General == <<71, 101, 110, 101, 114, 97, 108>>
Work == <<87, 111, 114, 107>>
All == <<97, 108, 108>>

ApiTitles == {<<71>>, <<120>>, <<>>}
ApiCategories == {<<>>, Work}
ApiSearches == {<<>>, <<103>>}
ApiFilters == {<<>>, All, Work}
ApiIds == 1..MaxWrites

\* the bodies of the PUT requests: a new title, or a new category together
\* with a userId; Undefined and 0 for a field the body does not have
ApiUpdates ==
    { [title |-> <<120>>, category |-> Undefined, userId |-> 0],
      [title |-> Undefined, category |-> Work, userId |-> 2] }

\* { $regex: search, $options: 'i' } on a field, for a search string of
\* letters
RegexMatches(field, search) ==
    field # Undefined /\ Contains(IgnoreCase(field), IgnoreCase(search))

\* the query of GET: userId of the token payload, $or when search is
\* given, category when it is given and is not 'all'
GetQuery_anyuser(payload, search, category) ==
    [userId |-> 0, search |-> search,
     category |-> IF category # <<>> /\ category # All THEN category ELSE <<>>]
GetQuery(payload, search, category) ==
    [userId |-> payload.userId, search |-> search,
     category |-> IF category # <<>> /\ category # All THEN category ELSE <<>>]

\* a document matches a query; a field the query does not have is 0 or
\* the empty string
QueryMatches(doc, query) ==
    /\ query.userId # 0 => doc.userId = query.userId
    /\ query.search # <<>> =>
          \/ RegexMatches(doc.title, query.search)
          \/ RegexMatches(doc.username, query.search)
          \/ RegexMatches(doc.url, query.search)
    /\ query.category # <<>> => doc.category = query.category

\* .sort({ updatedAt: -1 }); updatedAt is different for every document
RECURSIVE SortByUpdatedAt(_)
SortByUpdatedAt(docs) ==
    IF docs = {} THEN <<>>
    ELSE LET latest == CHOOSE d \in docs :
                           \A e \in docs : e.updatedAt <= d.updatedAt
         IN <<latest>> \o SortByUpdatedAt(docs \ {latest})

\* VaultItem.find(query).sort({ updatedAt: -1 })
Find(docs, query) ==
    SortByUpdatedAt({d \in docs : QueryMatches(d, query)})

ReplyOf(method, auth, search, category, status, data) ==
    [method |-> method,
     userId |-> IF auth.bearer /\ AuthService_verifyAccessToken(auth.token).ok
                THEN AuthService_verifyAccessToken(auth.token).val.userId
                ELSE 0,
     search |-> search, category |-> category, status |-> status,
     data |-> data, id |-> 0, error |-> ""]

\* the error text of a response of the [id] routes
ErrorOf(method, status) ==
    CASE status = 401 -> "No token provided"
      [] status = 404 -> "Vault item not found"
      [] status = 500 -> IF method = "PUT" THEN "Failed to update vault item"
                         ELSE "Failed to delete vault item"
      [] OTHER -> ""

\* the response of an [id] route, with params.id
IdReplyOf(method, id, auth, status, data) ==
    [ReplyOf(method, auth, <<>>, <<>>, status, data)
        EXCEPT !.id = id, !.error = ErrorOf(method, status)]

apiRest == <<svcVars, freshVars, vaultVars, concVars, kdfVars, strengthVars,
             clipVars, authVars, storageVars, genVars, loginVars>>

ApiInit ==
    /\ ApiIdle
    /\ AuthIdle
    /\ StorageIdle
    /\ GenIdle
    /\ LoginIdle
    /\ ClipIdle
    /\ StrengthIdle
    /\ envelope = NoEnvelope
    /\ outcome = NoOutcome
    /\ FreshIdle
    /\ VaultIdle
    /\ KdfIdle

\* the status every handler answers with before it reads the collection:
\* 401 without a Bearer header, 500 when verifyAccessToken throws (the
\* message of jwt.verify is neither 'Invalid token' nor
\* 'No token provided'), 0 to go on
AuthStatus(auth) ==
    IF ~auth.bearer THEN 401
    ELSE IF ~AuthService_verifyAccessToken(auth.token).ok THEN 500
    ELSE 0

\* GET /api/vault/items
Get(auth, search, category) ==
    /\ reply' =
         IF AuthStatus(auth) # 0
         THEN ReplyOf("GET", auth, search, category, AuthStatus(auth), <<>>)
         ELSE ReplyOf("GET", auth, search, category, 200,
                      Find(collection,
                           GetQuery(AuthService_verifyAccessToken(auth.token).val,
                                    search, category)))
    /\ UNCHANGED <<collection, writes, created, apiRest>>

\* POST /api/vault/items with title and category in the body, and a
\* username and an encryptedPassword
Post(auth, title, category) ==
    /\ writes < MaxWrites
    /\ IF AuthStatus(auth) # 0
       THEN /\ reply' = ReplyOf("POST", auth, <<>>, <<>>, AuthStatus(auth), <<>>)
            /\ UNCHANGED <<collection, writes, created>>
       ELSE IF title = <<>>
       THEN /\ reply' = ReplyOf("POST", auth, <<>>, <<>>, 400, <<>>)
            /\ UNCHANGED <<collection, writes, created>>
       ELSE LET userId == AuthService_verifyAccessToken(auth.token).val.userId
                vaultItem == [_id |-> writes + 1, userId |-> userId,
                              title |-> title, username |-> <<117>>,
                              url |-> Undefined,
                              category |-> IF category # <<>> THEN category
                                           ELSE General,
                              updatedAt |-> writes + 1]
            IN /\ collection' = collection \cup {vaultItem}
               /\ writes' = writes + 1
               /\ created' = [created EXCEPT ![userId] = @ \cup {writes + 1}]
               /\ reply' = ReplyOf("POST", auth, <<>>, <<>>, 201, <<vaultItem>>)
    /\ UNCHANGED apiRest

\* the allowed fields of the body are assigned; the document gets a new
\* updatedAt when save has something to write
Assign(doc, updates, now) ==
    LET assigned == [doc EXCEPT
                       !.title = IF updates.title # Undefined
                                 THEN updates.title ELSE @,
                       !.category = IF updates.category # Undefined
                                    THEN updates.category ELSE @]
    IN IF assigned = doc THEN doc ELSE [assigned EXCEPT !.updatedAt = now]

\* PUT /api/vault/items/[id]
Put(id, auth, updates) ==
    /\ writes < MaxWrites
    /\ IF AuthStatus(auth) # 0
       THEN /\ reply' = IdReplyOf("PUT", id, auth, AuthStatus(auth), <<>>)
            /\ UNCHANGED <<collection, writes>>
       ELSE LET userId == AuthService_verifyAccessToken(auth.token).val.userId
                found == {d \in collection : d._id = id /\ d.userId = userId}
            IN IF found = {}
               THEN /\ reply' = IdReplyOf("PUT", id, auth, 404, <<>>)
                    /\ UNCHANGED <<collection, writes>>
               ELSE LET vaultItem == CHOOSE d \in found : TRUE
                        saved == Assign(vaultItem, updates, writes + 1)
                    IN /\ collection' = (collection \ {vaultItem}) \cup {saved}
                       /\ writes' = IF saved = vaultItem THEN writes
                                    ELSE writes + 1
                       /\ reply' = IdReplyOf("PUT", id, auth, 200,
                                           <<saved>>)
    /\ UNCHANGED <<created, apiRest>>

\* VaultItem.deleteOne({ _id: id, userId: tokenPayload.userId })
DeleteOne_anyuser(docs, id, userId) == {d \in docs : d._id # id}
DeleteOne(docs, id, userId) ==
    {d \in docs : ~(d._id = id /\ d.userId = userId)}

\* DELETE /api/vault/items/[id]
Delete(id, auth) ==
    /\ IF AuthStatus(auth) # 0
       THEN /\ reply' = IdReplyOf("DELETE", id, auth, AuthStatus(auth),
                                <<>>)
            /\ UNCHANGED <<collection, created>>
       ELSE LET userId == AuthService_verifyAccessToken(auth.token).val.userId
                kept == DeleteOne(collection, id, userId)
            IN IF kept = collection
               THEN /\ reply' = IdReplyOf("DELETE", id, auth, 404, <<>>)
                    /\ UNCHANGED <<collection, created>>
               ELSE /\ collection' = kept
                    /\ created' = [created EXCEPT ![userId] = @ \ {id}]
                    /\ reply' = IdReplyOf("DELETE", id, auth, 200, <<>>)
    /\ UNCHANGED <<writes, apiRest>>

ApiNext ==
    \/ \E auth \in AuthHeaders, search \in ApiSearches,
          category \in ApiFilters : Get(auth, search, category)
    \/ \E auth \in AuthHeaders, title \in ApiTitles,
          category \in ApiCategories : Post(auth, title, category)
    \/ \E id \in ApiIds, auth \in AuthHeaders, updates \in ApiUpdates :
          Put(id, auth, updates)
    \/ \E id \in ApiIds, auth \in AuthHeaders : Delete(id, auth)

ApiSpec == ApiInit /\ [][ApiNext]_vars

\* C20: whatever requests came before, a GET that answers 200 returns
\* only documents whose userId is the userId of the request's token, and
\* without search and category filter it returns every document that user
\* has created and not deleted.
C20_PerUserVault ==
    (reply.method = "GET" /\ reply.status = 200) =>
        /\ reply.userId \in Users
        /\ \A i \in 1..Len(reply.data) :
              reply.data[i].userId = reply.userId
        /\ (reply.search = <<>> /\ reply.category \in {<<>>, All}) =>
              \A id \in created[reply.userId] :
                  \E i \in 1..Len(reply.data) : reply.data[i]._id = id

\* user 1 reads the vault without filter after user 1 has created two
\* documents and user 2 one in between: the answer is the two documents
\* of user 1, the later one first
C20_Witness ==
    /\ reply.method = "GET" /\ reply.status = 200 /\ reply.userId = 1
    /\ reply.search = <<>> /\ reply.category = <<>>
    /\ created[1] = {1, 3} /\ created[2] = {2}
    /\ Len(reply.data) = 2
    /\ reply.data[1]._id = 3 /\ reply.data[2]._id = 1
    /\ \E d \in collection : d.userId = 2

\* C21: a PUT or a DELETE on the id of a document that belongs to another
\* user than the one of the request's token is answered 404 with
\* 'Vault item not found' and changes no document of the collection.
C21_ForeignWriteRefused ==
    [][(/\ reply'.method \in {"PUT", "DELETE"}
        /\ reply'.userId \in Users
        /\ \E d \in collection :
               d._id = reply'.id /\ d.userId # reply'.userId)
       => (/\ reply'.status = 404
           /\ reply'.error = "Vault item not found"
           /\ collection' = collection)]_vars

\* user 2 has sent a DELETE for document 1, which user 1 created: the
\* answer is 404 and the document is still in the collection, beside a
\* document of user 2
C21_Witness ==
    /\ reply.method = "DELETE" /\ reply.userId = 2 /\ reply.id = 1
    /\ reply.status = 404 /\ reply.error = "Vault item not found"
    /\ \E d \in collection : d._id = 1 /\ d.userId = 1
    /\ \E d \in collection : d.userId = 2

\* ------------------------------------------------------------------
\* The auth module: its secrets, the check it makes when it is loaded,
\* and AuthService signing and verifying tokens.

FallbackSecret ==
    "fallback-secret-key-for-development-only-change-in-production"
FallbackRefreshSecret ==
    "fallback-refresh-secret-key-for-development-only-change-in-production"

\* process.env: a variable is not defined, or is the empty string, or has
\* a value
EnvNodeEnvs == {"undefined", "development", "production"}
EnvSecrets == {"undefined", "", "s3cret"}
EnvRefreshSecrets == {"undefined", "", "r3fresh"}

\* value || fallback: undefined and '' are falsy
OrElse(value, fallback) ==
    IF value = "undefined" \/ value = "" THEN fallback ELSE value

\* const JWT_SECRET = process.env.JWT_SECRET || '...'
JWT_SECRET(e) == OrElse(e.JWT_SECRET, FallbackSecret)
JWT_REFRESH_SECRET(e) ==
    OrElse(e.JWT_REFRESH_SECRET, FallbackRefreshSecret)

\* the condition of the throw at module load; the secrets it tests are
\* the constants above, after the fallback
LoadThrows(e) ==
    /\ e.NODE_ENV = "production"
    /\ (JWT_SECRET(e) = "" \/ JWT_REFRESH_SECRET(e) = "")

\* jwt.sign(payload, secret): the token carries what it was signed with
AuthService_generateAccessToken(e, userId) ==
    [userId |-> userId, type |-> "access", secret |-> JWT_SECRET(e)]
AuthService_generateRefreshToken(e, userId) ==
    [userId |-> userId, type |-> "refresh", secret |-> JWT_REFRESH_SECRET(e)]

\* jwt.verify(token, secret) returns the payload of a token signed with
\* the secret and throws for any other
JwtVerify(token, secret) ==
    IF token.secret = secret
    THEN [ok |-> TRUE, userId |-> token.userId, type |-> token.type,
          secret |-> secret]
    ELSE [ok |-> FALSE, userId |-> 0, type |-> "", secret |-> secret]

\* a token somebody else has signed with the fallback secret of the source
ForgedToken ==
    [userId |-> 1, type |-> "access", secret |-> FallbackSecret]

\* every token that can be handed to a verify call
AllTokens ==
    [userId : Users, type : {"access", "refresh"},
     secret : {FallbackSecret, FallbackRefreshSecret, "s3cret", "r3fresh"}]

authRest == <<svcVars, freshVars, vaultVars, concVars, kdfVars, strengthVars,
              clipVars, apiVars, storageVars, genVars, loginVars>>

AuthInit ==
    /\ env \in [NODE_ENV : EnvNodeEnvs, JWT_SECRET : EnvSecrets,
                JWT_REFRESH_SECRET : EnvRefreshSecrets]
    /\ authModule = "unloaded"
    /\ signed = {}
    /\ verified = NoVerified
    /\ StorageIdle
    /\ GenIdle
    /\ LoginIdle
    /\ ApiIdle
    /\ ClipIdle
    /\ StrengthIdle
    /\ envelope = NoEnvelope
    /\ outcome = NoOutcome
    /\ FreshIdle
    /\ VaultIdle
    /\ KdfIdle

\* the first import of the module evaluates it
LoadAuthModule ==
    /\ authModule = "unloaded"
    /\ authModule' = IF LoadThrows(env) THEN "threw" ELSE "loaded"
    /\ UNCHANGED <<env, signed, verified, authRest>>

\* AuthService.generateTokens(userId, email)
GenerateTokens(userId) ==
    /\ authModule = "loaded"
    /\ signed' = signed \cup {AuthService_generateAccessToken(env, userId),
                              AuthService_generateRefreshToken(env, userId)}
    /\ UNCHANGED <<env, authModule, verified, authRest>>

\* AuthService.verifyAccessToken(token)
VerifyAccessToken(token) ==
    /\ authModule = "loaded"
    /\ token \in signed \cup {ForgedToken}
    /\ verified' = JwtVerify(token, JWT_SECRET(env))
    /\ UNCHANGED <<env, authModule, signed, authRest>>

\* AuthService.verifyRefreshToken(token)
VerifyRefreshToken(token) ==
    /\ authModule = "loaded"
    /\ token \in signed \cup {ForgedToken}
    /\ verified' = JwtVerify(token, JWT_REFRESH_SECRET(env))
    /\ UNCHANGED <<env, authModule, signed, authRest>>

AuthNext ==
    \/ LoadAuthModule
    \/ \E userId \in Users : GenerateTokens(userId)
    \/ \E token \in AllTokens : VerifyAccessToken(token)
    \/ \E token \in AllTokens : VerifyRefreshToken(token)

AuthSpec == AuthInit /\ [][AuthNext]_vars

\* C22: with NODE_ENV 'production' and JWT_SECRET or JWT_REFRESH_SECRET
\* not defined, the module does not load, no token is signed with a
\* fallback secret and none is verified with one.
C22_ProductionSecretCheck ==
    (/\ env.NODE_ENV = "production"
     /\ (env.JWT_SECRET = "undefined"
         \/ env.JWT_REFRESH_SECRET = "undefined"))
    => /\ authModule # "loaded"
       /\ \A t \in signed :
             t.secret \notin {FallbackSecret, FallbackRefreshSecret}
       /\ verified.secret \notin {FallbackSecret, FallbackRefreshSecret}

\* ------------------------------------------------------------------
\* EncryptionService.encryptForStorage and decryptFromStorage: the
\* envelope as JSON, as base64.

\* JSON.stringify({ e: encrypted, s: salt, i: iv, t: authTag }) for hex
\* strings, which need no escape: {"e":"...","s":"...","i":"...","t":"..."}
JsonStringify(o) ==
    <<123, 34, 101, 34, 58, 34>> \o o.encrypted
    \o <<34, 44, 34, 115, 34, 58, 34>> \o o.salt
    \o <<34, 44, 34, 105, 34, 58, 34>> \o o.iv
    \o <<34, 44, 34, 116, 34, 58, 34>> \o o.authTag \o <<34, 125>>

\* the index of the first quotation mark at or after i, 0 when there is
\* none
RECURSIVE ScanQuote(_, _)
ScanQuote(t, i) ==
    IF i > Len(t) THEN 0
    ELSE IF t[i] = 34 THEN i
    ELSE ScanQuote(t, i + 1)

\* the members "key":"value" of an object from index i on, up to the
\* closing brace, which has to be the last character; acc holds the members
\* e, s, i and t read so far
RECURSIVE ParseMembers(_, _, _)
ParseMembers(t, i, acc) ==
    LET q == ScanQuote(t, i + 1)
        v == q + 2
        q2 == ScanQuote(t, v + 1)
    IN IF i > Len(t) \/ t[i] # 34 \/ q = 0 \/ v > Len(t)
          \/ t[q + 1] # 58 \/ t[v] # 34 \/ q2 = 0 \/ q2 + 1 > Len(t)
       THEN Throw("SyntaxError")
       ELSE LET key == SubSeq(t, i + 1, q - 1)
                value == SubSeq(t, v + 1, q2 - 1)
                acc2 == [e |-> IF key = <<101>> THEN value ELSE acc.e,
                         s |-> IF key = <<115>> THEN value ELSE acc.s,
                         i |-> IF key = <<105>> THEN value ELSE acc.i,
                         t |-> IF key = <<116>> THEN value ELSE acc.t]
            IN IF t[q2 + 1] = 125 /\ q2 + 1 = Len(t) THEN Ok(acc2)
               ELSE IF t[q2 + 1] = 44 THEN ParseMembers(t, q2 + 2, acc2)
               ELSE Throw("SyntaxError")

\* JSON.parse of an object whose members are strings without escapes
JsonParse(t) ==
    IF Len(t) < 2 \/ t[1] # 123 THEN Throw("SyntaxError")
    ELSE IF Len(t) = 2 /\ t[2] = 125
    THEN Ok([e |-> Undefined, s |-> Undefined, i |-> Undefined,
             t |-> Undefined])
    ELSE ParseMembers(t, 2, [e |-> Undefined, s |-> Undefined,
                             i |-> Undefined, t |-> Undefined])

\* Buffer.from(text).toString('base64'): three bytes give four characters,
\* the last group is padded with =
BufferToBase64(b) ==
    LET n == Len(b)
        B(k) == IF k <= n THEN b[k] ELSE 0
    IN [j \in 1..(4 * ((n + 2) \div 3)) |->
          LET i == 3 * ((j - 1) \div 4) + 1
              p == (j - 1) % 4
          IN IF p = 0 THEN B64Char(B(i) \div 4)
             ELSE IF p = 1
               THEN B64Char((B(i) % 4) * 16 + (B(i + 1) \div 16))
             ELSE IF p = 2
               THEN IF i + 1 > n THEN 61
                    ELSE B64Char((B(i + 1) % 16) * 4 + (B(i + 2) \div 64))
             ELSE IF i + 2 > n THEN 61
                  ELSE B64Char(B(i + 2) % 64)]

IsB64Char(c) == B64Val(c) >= 0

\* Buffer.from(s, 'base64'): characters outside the alphabet are skipped,
\* four characters give three bytes, a last group of two or three gives
\* one or two
BufferFromBase64(s) ==
    LET t == SelectSeq(s, IsB64Char)
        V(x) == IF x <= Len(t) THEN B64Val(t[x]) ELSE 0
    IN [k \in 1..((Len(t) * 3) \div 4) |->
          LET i == 4 * ((k - 1) \div 3) + 1
              p == (k - 1) % 3
          IN IF p = 0 THEN V(i) * 4 + (V(i + 1) \div 16)
             ELSE IF p = 1 THEN (V(i + 1) % 16) * 16 + (V(i + 2) \div 4)
             ELSE (V(i + 2) % 4) * 64 + V(i + 3)]

\* Buffer.from(text) and buffer.toString('utf8'): characters below 128 are
\* their own byte, so a text of such characters needs no walk
BufferFromText(t) ==
    IF \A i \in 1..Len(t) : t[i] < 128 THEN t ELSE Utf8Encode(t)
BufferToText(b) ==
    IF \A i \in 1..Len(b) : b[i] < 128 THEN b ELSE Utf8Decode(b)

\* !x for a member: it is undefined or the empty string
Falsy(x) == x = Undefined \/ x = <<>>

EncryptionService_encryptForStorage(data, masterPassword, s1, s2) ==
    LET r == EncryptionService_encrypt(data, masterPassword, s1, s2)
    IN IF ~r.ok THEN r
       ELSE Ok(BufferToBase64(BufferFromText(JsonStringify(r.val))))

EncryptionService_decryptFromStorage(encryptedPackage, masterPassword) ==
    LET packaged ==
            JsonParse(BufferToText(BufferFromBase64(encryptedPackage)))
    IN IF ~packaged.ok THEN Throw("Failed to decrypt package: SyntaxError")
       ELSE IF Falsy(packaged.val.e) \/ Falsy(packaged.val.s)
               \/ Falsy(packaged.val.i) \/ Falsy(packaged.val.t)
       THEN Throw("Failed to decrypt package: Invalid encrypted package format")
       ELSE LET d == EncryptionService_decrypt(packaged.val.e, masterPassword,
                                               packaged.val.s, packaged.val.i,
                                               packaged.val.t)
            IN IF d.ok THEN d
               ELSE Throw("Failed to decrypt package: Decryption failed")

\* the plaintexts that are packaged: up to one character more than
\* MaxChars
StoragePlaintexts == StringsUpTo(MaxChars + 1)

storageRest == <<svcVars, freshVars, vaultVars, concVars, kdfVars,
                 strengthVars, clipVars, apiVars, authVars, genVars,
                 loginVars>>

StorageInit ==
    /\ StorageIdle
    /\ GenIdle
    /\ LoginIdle
    /\ AuthIdle
    /\ ApiIdle
    /\ ClipIdle
    /\ StrengthIdle
    /\ envelope = NoEnvelope
    /\ outcome = NoOutcome
    /\ FreshIdle
    /\ VaultIdle
    /\ KdfIdle

\* a call of encryptForStorage; seed is the state of crypto.randomBytes
EncryptForStorage(data, masterPassword, seed) ==
    /\ stored' = [data |-> data, masterPassword |-> masterPassword,
                  r |-> EncryptionService_encryptForStorage(
                            data, masterPassword, seed, seed + 1)]
    /\ recovered' = NoRecovered
    /\ UNCHANGED storageRest

\* a call of decryptFromStorage on the package of the last call
DecryptFromStorage(masterPassword) ==
    /\ stored.r.ok
    /\ recovered' = [masterPassword |-> masterPassword,
                     r |-> EncryptionService_decryptFromStorage(
                               stored.r.val, masterPassword)]
    /\ UNCHANGED <<stored, storageRest>>

StorageNext ==
    \/ \E data \in StoragePlaintexts, masterPassword \in MasterSecrets,
          seed \in Seeds : EncryptForStorage(data, masterPassword, seed)
    \/ \E masterPassword \in MasterSecrets :
          DecryptFromStorage(masterPassword)

StorageSpec == StorageInit /\ [][StorageNext]_vars

\* C23: decryptFromStorage of a package of encryptForStorage, with the
\* master password it was made with, returns the plaintext, for every
\* plaintext including the empty string.
C23_StorageRoundTrip ==
    (recovered # NoRecovered
     /\ recovered.masterPassword = stored.masterPassword)
    => (recovered.r.ok /\ recovered.r.val = stored.data)


(***************************************************************************)
(* The password generator                                                  *)
(* (src/app/components/AdvancedPasswordGenerator.tsx).                     *)
(***************************************************************************)

\* the range of the length slider
MinLength == 8
MaxLength == 64

\* the lengths the slider is set to: both ends of its range and the default
GenLengths == {MinLength, DefaultOptions.length, MaxLength}

\* the custom characters typed in: none, "l", "x{"
GenCustomChars == {<<>>, <<108>>, <<120, 123>>}

characterSets ==
    [lowercase |-> [i \in 1..26 |-> 96 + i],
     uppercase |-> [i \in 1..26 |-> 64 + i],
     numbers |-> [i \in 1..10 |-> 47 + i],
     symbols |-> <<33, 64, 35, 36, 37, 94, 38, 42, 40, 41, 95, 43, 45, 61,
                   91, 93, 123, 125, 124, 59, 58, 44, 46, 60, 62, 63>>,
     ambiguous |-> <<123, 125, 91, 93, 40, 41, 47, 92, 39, 34, 96, 126, 44,
                     59, 58, 46, 60, 62>>,
     similar |-> <<105, 108, 49, 76, 111, 48, 79>>]

\* "undefined" and the message shown for an empty pool
UndefinedText == <<117, 110, 100, 101, 102, 105, 110, 101, 100>>
SelectMessage == "Select at least one character type"
\* the message as code units
SelectMessageText ==
    <<83, 101, 108, 101, 99, 116, 32, 97, 116, 32, 108, 101, 97, 115, 116,
      32, 111, 110, 101, 32, 99, 104, 97, 114, 97, 99, 116, 101, 114, 32,
      116, 121, 112, 101>>

\* Math.random() hands out RandomDen different values; MathRandom(seed, k)
\* is the numerator of the k-th value of the stream that starts at seed
RandomDen == 260
MathSeeds == 0..2
MathRandom(seed, k) == (seed * 115 + k * 85) % RandomDen

\* Math.floor(Math.random() * n) for the value r / RandomDen
RandomIndex(r, n) == (r * n) \div RandomDen

\* string.includes(char)
Includes(s, c) == \E i \in 1..Len(s) : s[i] = c

\* pool.split('').filter(char => !excluded.includes(char)).join('')
Exclude(pool, excluded) ==
    LET Keep(c) == ~Includes(excluded, c)
    IN SelectSeq(pool, Keep)

\* the pool before the exclusions
CharacterPool(o) ==
    (IF o.includeLowercase THEN characterSets.lowercase ELSE <<>>)
    \o (IF o.includeUppercase THEN characterSets.uppercase ELSE <<>>)
    \o (IF o.includeNumbers THEN characterSets.numbers ELSE <<>>)
    \o (IF o.includeSymbols THEN characterSets.symbols ELSE <<>>)
    \o o.customChars

\* the pool after the exclusions
ExcludedPool(o) ==
    LET p1 == IF o.excludeAmbiguous
              THEN Exclude(CharacterPool(o), characterSets.ambiguous)
              ELSE CharacterPool(o)
    IN IF o.excludeSimilar THEN Exclude(p1, characterSets.similar) ELSE p1

\* the sets a required character is taken from, in the order of the code
SelectedSets(o) ==
    (IF o.includeLowercase THEN <<characterSets.lowercase>> ELSE <<>>)
    \o (IF o.includeUppercase THEN <<characterSets.uppercase>> ELSE <<>>)
    \o (IF o.includeNumbers THEN <<characterSets.numbers>> ELSE <<>>)
    \o (IF o.includeSymbols THEN <<characterSets.symbols>> ELSE <<>>)

\* requiredChars: one character of each selected set, each at the index the
\* next Math.random() gives
RequiredChars(o, mseed) ==
    LET sel == SelectedSets(o)
    IN [k \in 1..Len(sel) |->
          sel[k][RandomIndex(MathRandom(mseed, k - 1), Len(sel[k])) + 1]]

RemainingLength_full(o, requiredChars) == o.length

RemainingLength(o, requiredChars) ==
    IF o.length - Len(requiredChars) > 0
    THEN o.length - Len(requiredChars) ELSE 0

\* a Uint32 of crypto.getRandomValues, as its four bytes, modulo n
Uint32Mod(b, n) ==
    (((((((b[4] % n) * 256 + b[3]) % n) * 256 + b[2]) % n) * 256) + b[1]) % n

\* what the i-th round of a fill loop appends: the character of the pool
\* at the random index, or "undefined" when the pool is empty (the index
\* is then NaN with crypto and 0 without, and pool[index] is undefined)
FillAt(pool, i, hasCrypto, randomValues, mseed, used) ==
    IF Len(pool) = 0 THEN UndefinedText
    ELSE IF hasCrypto
      THEN <<pool[Uint32Mod(SubSeq(randomValues, 4 * i - 3, 4 * i),
                            Len(pool)) + 1]>>
      ELSE <<pool[RandomIndex(MathRandom(mseed, used + i - 1),
                              Len(pool)) + 1]>>

\* split('').sort(() => 0.5 - Math.random()).join(''): the comparator is
\* not consistent, so the order is whatever the engine's sort makes of it;
\* the orders drawn here are the rotations by up to MaxRotate, each also
\* reversed
MaxRotate == 1
Permute(s, rot, rev) ==
    LET n == Len(s)
    IN [i \in 1..n |-> IF rev THEN s[((n - i + rot) % n) + 1]
                       ELSE s[((i - 1 + rot) % n) + 1]]

\* the password generatePassword makes of the pool after the exclusions,
\* the required characters and the bytes crypto.getRandomValues fills the
\* array with; p is the order the sort leaves
GeneratedFrom(pool, requiredChars, randomValues, o, mseed, hasCrypto, p) ==
    LET remainingLength == RemainingLength(o, requiredChars)
        filled == Concat([i \in 1..remainingLength |->
                            FillAt(pool, i, hasCrypto, randomValues, mseed,
                                   Len(requiredChars))])
    IN Permute(requiredChars \o filled, p.rot, p.rev)

\* generatePassword, from the pool check on: the password it sets
GeneratedPassword(o, mseed, hasCrypto, cseed, rot, rev) ==
    CHOOSE g \in
        { GeneratedFrom(pool, requiredChars, randomValues, o, mseed,
                        hasCrypto, [rot |-> rot, rev |-> rev]) :
            pool \in {ExcludedPool(o)},
            requiredChars \in {RequiredChars(o, mseed)},
            randomValues \in {SecureRandomBytes(4 * o.length, cseed)} } :
        TRUE

\* generatePassword runs at most MaxGenerations times
MaxGenerations == 1

genRest == <<svcVars, freshVars, vaultVars, concVars, kdfVars,
             strengthVars, clipVars, apiVars, authVars, storageVars,
             loginVars>>

GenInit ==
    /\ GenIdle
    /\ LoginIdle
    /\ StorageIdle
    /\ AuthIdle
    /\ ApiIdle
    /\ ClipIdle
    /\ StrengthIdle
    /\ envelope = NoEnvelope
    /\ outcome = NoOutcome
    /\ FreshIdle
    /\ VaultIdle
    /\ KdfIdle

\* the options are changed until generatePassword has run, so that a
\* password is met with the options it was generated from
Settling == generations = 0

\* handleOptionChange for the length slider
ChangeLength(value) ==
    /\ Settling
    /\ options' = [options EXCEPT !.length = value]
    /\ UNCHANGED <<generatorPassword, generatorStrength, generatedPassword,
                   generations, genRest>>

\* handleOptionChange for a checkbox
ChangeCheckbox(key, value) ==
    /\ Settling
    /\ options' = [options EXCEPT ![key] = value]
    /\ UNCHANGED <<generatorPassword, generatorStrength, generatedPassword,
                   generations, genRest>>

\* handleOptionChange for the custom characters
ChangeCustomChars(value) ==
    /\ Settling
    /\ options' = [options EXCEPT !.customChars = value]
    /\ UNCHANGED <<generatorPassword, generatorStrength, generatedPassword,
                   generations, genRest>>

\* generatePassword with nothing in the pool
GenerateNothing ==
    /\ generations < MaxGenerations
    /\ generations' = generations + 1
    /\ Len(CharacterPool(options)) = 0
    /\ generatorPassword' = SelectMessageText
    /\ generatorStrength' = [score |-> 0, feedback |-> <<SelectMessage>>]
    /\ UNCHANGED <<options, generatedPassword, genRest>>

\* generatePassword with a pool
GeneratePassword(mseed, hasCrypto, cseed, rot, rev) ==
    /\ generations < MaxGenerations
    /\ generations' = generations + 1
    /\ Len(CharacterPool(options)) # 0
    /\ \E g \in {GeneratedPassword(options, mseed, hasCrypto, cseed, rot,
                                    rev)} :
          /\ generatorPassword' = g
          /\ generatorStrength' = calculateStrength(g)
          /\ generatedPassword' = g
    /\ UNCHANGED <<options, genRest>>

Checkboxes == {"includeUppercase", "includeLowercase", "includeNumbers",
               "includeSymbols", "excludeAmbiguous", "excludeSimilar"}

GenNext ==
    \/ \E value \in GenLengths : ChangeLength(value)
    \/ \E key \in Checkboxes, value \in BOOLEAN : ChangeCheckbox(key, value)
    \/ \E value \in GenCustomChars : ChangeCustomChars(value)
    \/ GenerateNothing
    \/ \E mseed \in MathSeeds, hasCrypto \in BOOLEAN, cseed \in Seeds,
          rot \in 0..MaxRotate, rev \in BOOLEAN :
          GeneratePassword(mseed, hasCrypto, cseed, rot, rev)

GenSpec == GenInit /\ [][GenNext]_vars

\* the types selected in the options
SelectedTypes(o) ==
    {t \in {"lowercase", "uppercase", "numbers", "symbols"} :
        \/ t = "lowercase" /\ o.includeLowercase
        \/ t = "uppercase" /\ o.includeUppercase
        \/ t = "numbers" /\ o.includeNumbers
        \/ t = "symbols" /\ o.includeSymbols}

\* C24: with at least one character type selected and a length from 8 to
\* 64, the password generatePassword sets has exactly options.length
\* characters and at least one character of each selected type.
C24_GeneratedShape ==
    [][(/\ generatorPassword' # generatorPassword
        /\ SelectedTypes(options) # {}
        /\ options.length \in MinLength..MaxLength)
       => (/\ Len(generatorPassword') = options.length
           /\ \A t \in SelectedTypes(options) :
                 \E i \in 1..Len(generatorPassword') :
                    Includes(characterSets[t], generatorPassword'[i]))]_vars

C24_Witness ==
    /\ Len(generatorPassword) = MaxLength
    /\ options.length = MaxLength
    /\ SelectedTypes(options) = {"numbers", "symbols"}
    /\ options.excludeAmbiguous
    /\ generatedPassword = generatorPassword

\* C25: with excludeSimilar the generated password holds none of
\* i, l, 1, L, o, 0, O, and with excludeAmbiguous none of the ambiguous
\* characters, whatever types and custom characters are selected.
C25_ExclusionsHonoured ==
    [][(/\ generatorPassword' # generatorPassword
        /\ Len(CharacterPool(options)) # 0)
       => (/\ options.excludeSimilar
              => \A i \in 1..Len(generatorPassword') :
                    ~Includes(characterSets.similar, generatorPassword'[i])
           /\ options.excludeAmbiguous
              => \A i \in 1..Len(generatorPassword') :
                    ~Includes(characterSets.ambiguous, generatorPassword'[i]))]_vars


(***************************************************************************)
(* The claims about the list's cache and the master key of the items.      *)
(***************************************************************************)
\* C26: while the list is shown, an entry of decryptedPasswords for an
\* item is the authenticated decryption, under the current masterKey, of
\* the encryptedPassword the item has in the items list.
C26_CacheConsistent ==
    \A id \in ItemIds :
        (mounted /\ editingItem = 0 /\ id <= Len(vaultItems)
         /\ decryptedPasswords[id] # Undefined)
        => LET secure == SecureClientDecryption_decrypt(
                             vaultItems[id].encryptedPassword, masterKey,
                             webCrypto)
           IN secure.ok /\ secure.val = decryptedPasswords[id]

\* C27: every item the list shows was encrypted under the master key the
\* Dashboard holds now (which is what decryptPassword needs to recover the
\* password), items created before the last mount included.
C27_StoredItemsDecryptable ==
    \A id \in ItemIds :
        (mounted /\ editingItem = 0 /\ id <= Len(vaultItems))
        => vaultItems[id].key = masterKey

\* C28: when handleUpdateItem is submitted with empty notes, the PUT body
\* has no encryptedNotes member, the stored encryptedNotes of the item stay
\* what they were, and the stored encryptedPassword becomes the one of the
\* body.
C28_EmptyNotesKept ==
    [][(/\ mounted /\ mounted'
        /\ editingItem # 0 /\ editingItem' = 0
        /\ lastRequest'.method = "PUT" /\ lastRequest'.notes = <<>>)
       => (/\ wire'[1].method = "PUT"
           /\ wire'[1].url = ItemUrl(editingItem)
           /\ \A i \in 1..Len(wire'[1].body) :
                 wire'[1].body[i][1] # "encryptedNotes"
           /\ store'[editingItem].encryptedNotes
                 = store[editingItem].encryptedNotes
           /\ BodyField(wire'[1].body, "encryptedPassword") # Undefined
           /\ store'[editingItem].encryptedPassword
                 = BodyField(wire'[1].body, "encryptedPassword"))]_vars

\* an item that has notes has been updated with empty notes
C28_Witness ==
    /\ mounted
    /\ lastRequest.method = "PUT"
    /\ lastRequest.notes = <<>>
    /\ Len(store) > 0
    /\ store[1].replaced # NoReplaced
    /\ store[1].encryptedNotes # Undefined
    /\ Len(wire) = 2
    /\ wire[1].method = "PUT"
    /\ \A i \in 1..Len(wire[1].body) : wire[1].body[i][1] # "encryptedNotes"


(***************************************************************************)
(* The User model's refresh tokens (src/app/utils/encryption.ts, the part  *)
(* that is models/User) and the login route                                *)
(* (src/app/api/debug-register/route.ts, second half), with               *)
(* TwoFactorService.verifyToken (src/unnamed/part_009).                    *)
(***************************************************************************)

\* the list is cut to its last MaxRefreshTokens entries
MaxRefreshTokens == 5

\* Date.now() at the requests, in seconds: two moments a TOTP step apart
TotpStep == 30
LoginTimes == {TotpStep, 2 * TotpStep}

\* the emails and passwords of the requests: none, the user's, another
LoginEmails == {<<>>, UserEmail, <<98>>}
LoginPasswords == {<<>>, UserPassword, <<113>>}

\* authenticator.generate(secret) in the time step: six digits that
\* depend on the secret and the step
Totp(secret, step) ==
    [i \in 1..6 |-> 48 + ((secret[((i - 1) % Len(secret)) + 1] * i + step * 7)
                          % 10)]

\* TwoFactorService.verifyToken at the moment now: authenticator.verify
\* with window 1 accepts the code of the step before, the step and the step
\* after; a token or secret that makes it throw gives false
TwoFactorService_verifyToken(token, secret, now) ==
    /\ token # Undefined
    /\ secret # Undefined
    /\ \E step \in ((now \div TotpStep) - 1)..((now \div TotpStep) + 1) :
          token = Totp(secret, step)

\* the twoFactorToken of the requests: none, the empty string, the code of
\* the first moment, and a code of no step near
LoginTwoFactorTokens ==
    {Undefined, <<>>, Totp(TwoFactorSecret, 1), Totp(TwoFactorSecret, 5)}

\* bcrypt.compare(candidatePassword, this.passwordHash)
User_comparePassword(doc, candidatePassword) ==
    doc.passwordHash = BcryptHash(candidatePassword)

\* addRefreshToken keeping the first MaxRefreshTokens entries
User_addRefreshToken_first(doc, token) ==
    LET pushed == Append(doc.refreshTokens, token)
    IN [doc EXCEPT !.refreshTokens =
          IF Len(pushed) > MaxRefreshTokens
          THEN SubSeq(pushed, 1, MaxRefreshTokens) ELSE pushed]

\* userSchema.methods.addRefreshToken: push, slice(-5), save
User_addRefreshToken(doc, token) ==
    LET pushed == Append(doc.refreshTokens, token)
    IN [doc EXCEPT !.refreshTokens =
          IF Len(pushed) > MaxRefreshTokens
          THEN SubSeq(pushed, Len(pushed) - MaxRefreshTokens + 1, Len(pushed))
          ELSE pushed]

\* userSchema.methods.removeRefreshToken: filter(t => t !== token), save
User_removeRefreshToken(doc, token) ==
    LET Other(t) == t # token
    IN [doc EXCEPT !.refreshTokens = SelectSeq(doc.refreshTokens, Other)]

\* userSchema.methods.hasRefreshToken
User_hasRefreshToken(doc, token) ==
    \E i \in 1..Len(doc.refreshTokens) : doc.refreshTokens[i] = token

\* jwt.sign at the moment now: the token carries its iat
SignedAt(token, now) ==
    [userId |-> token.userId, type |-> token.type, secret |-> token.secret,
     iat |-> now]

\* AuthService.generateTokens at the moment now
AuthService_generateTokens(e, userId, now) ==
    [accessToken |-> SignedAt(AuthService_generateAccessToken(e, userId), now),
     refreshToken |-> SignedAt(AuthService_generateRefreshToken(e, userId),
                               now)]

\* the refresh tokens handed to addRefreshToken and removeRefreshToken
RefreshTokens ==
    {SignedAt(AuthService_generateRefreshToken(env, UserId), now) :
        now \in LoginTimes}

\* User.findOne({ email }): whether there is a document, and the document
FindUser(email) == [found |-> email = userDoc.email, doc |-> userDoc]

\* a response of the login route to a request
LoginReplyOf(email, twoFactorToken, now, status, message, required, tokens) ==
    [op |-> "login", email |-> email, twoFactorToken |-> twoFactorToken,
     now |-> now, status |-> status, error |-> message,
     requiresTwoFactor |-> required,
     accessToken |-> tokens.accessToken, cookie |-> tokens.refreshToken]

NoTokens == [accessToken |-> NoToken, refreshToken |-> NoToken]

loginRest == <<svcVars, freshVars, vaultVars, concVars, kdfVars,
               strengthVars, clipVars, apiVars, authVars, storageVars,
               genVars>>

LoginInit ==
    /\ \E enabled \in BOOLEAN : userDoc = NewUser(enabled)
    /\ loginReply = NoLoginReply
    /\ tokenCall = NoTokenCall
    /\ GenIdle
    /\ StorageIdle
    /\ AuthIdle
    /\ ApiIdle
    /\ ClipIdle
    /\ StrengthIdle
    /\ envelope = NoEnvelope
    /\ outcome = NoOutcome
    /\ FreshIdle
    /\ VaultIdle
    /\ KdfIdle

\* the call of addRefreshToken: the token, and how many entries the slice
\* has dropped
AddCall(doc, token) ==
    [op |-> "add", token |-> token,
     dropped |-> IF Len(doc.refreshTokens) + 1 > MaxRefreshTokens
                 THEN Len(doc.refreshTokens) + 1 - MaxRefreshTokens ELSE 0]

\* POST of the login route
Login(email, password, twoFactorToken, now) ==
    LET user == FindUser(email).doc
    IN IF email = <<>> \/ password = <<>>
       THEN /\ loginReply' = LoginReplyOf(email, twoFactorToken, now, 400,
                                          "Email and password are required",
                                          FALSE, NoTokens)
            /\ tokenCall' = NoTokenCall
            /\ UNCHANGED <<userDoc, loginRest>>
       ELSE IF ~FindUser(email).found \/ ~User_comparePassword(user, password)
       THEN /\ loginReply' = LoginReplyOf(email, twoFactorToken, now, 401,
                                          "Invalid credentials", FALSE,
                                          NoTokens)
            /\ tokenCall' = NoTokenCall
            /\ UNCHANGED <<userDoc, loginRest>>
       ELSE IF user.twoFactorEnabled
               /\ (twoFactorToken = Undefined \/ twoFactorToken = <<>>)
       THEN /\ loginReply' = LoginReplyOf(email, twoFactorToken, now, 200,
                                          "", TRUE, NoTokens)
            /\ tokenCall' = NoTokenCall
            /\ UNCHANGED <<userDoc, loginRest>>
       ELSE LET tokens == AuthService_generateTokens(env, user._id, now)
                seen == [user EXCEPT !.lastLogin = now]
            IN /\ userDoc' = User_addRefreshToken(seen, tokens.refreshToken)
               /\ tokenCall' = AddCall(seen, tokens.refreshToken)
               /\ loginReply' = LoginReplyOf(email, twoFactorToken, now, 200,
                                             "", FALSE, tokens)
               /\ UNCHANGED loginRest

\* user.addRefreshToken(token) outside a login
AddRefreshToken(token) ==
    /\ userDoc' = User_addRefreshToken(userDoc, token)
    /\ tokenCall' = AddCall(userDoc, token)
    /\ loginReply' = NoLoginReply
    /\ UNCHANGED loginRest

\* user.removeRefreshToken(token)
RemoveRefreshToken(token) ==
    /\ userDoc' = User_removeRefreshToken(userDoc, token)
    /\ tokenCall' = [op |-> "remove", token |-> token, dropped |-> 0]
    /\ loginReply' = NoLoginReply
    /\ UNCHANGED loginRest

LoginNext ==
    \/ \E email \in LoginEmails, password \in LoginPasswords,
          twoFactorToken \in LoginTwoFactorTokens, now \in LoginTimes :
          Login(email, password, twoFactorToken, now)
    \/ \E token \in RefreshTokens : AddRefreshToken(token)
    \/ \E token \in RefreshTokens : RemoveRefreshToken(token)

LoginSpec == LoginInit /\ [][LoginNext]_vars

\* C29: refreshTokens never holds more than 5 tokens, and after
\* addRefreshToken(t) the list ends with t, before which it holds the
\* most recently added of the earlier tokens, as many as fit, in the
\* order they had.
C29_RefreshTokensBounded ==
    [][/\ Len(userDoc'.refreshTokens) <= 5
       /\ tokenCall'.op = "add" =>
            LET new == userDoc'.refreshTokens
                old == userDoc.refreshTokens
                kept == IF Len(old) < 4 THEN Len(old) ELSE 4
            IN /\ Len(new) = kept + 1
               /\ new[Len(new)] = tokenCall'.token
               /\ SubSeq(new, 1, kept)
                    = SubSeq(old, Len(old) - kept + 1, Len(old))]_vars

\* a sixth token has been added to a list that held both tokens, and the
\* oldest has been dropped
C29_Witness ==
    /\ tokenCall.op = "add"
    /\ tokenCall.dropped = 1
    /\ Len(userDoc.refreshTokens) = 5
    /\ userDoc.refreshTokens[5] = tokenCall.token
    /\ \E i \in 1..4 : userDoc.refreshTokens[i] # tokenCall.token

\* C30: for a user with twoFactorEnabled the login route issues tokens only
\* for a request whose twoFactorToken verifies against the user's secret;
\* with a missing or invalid twoFactorToken no token is issued and the
\* user document (lastLogin, refreshTokens) stays as it was.
C30_TwoFactorGate ==
    [][(/\ loginReply'.op = "login"
        /\ loginReply'.email = userDoc.email
        /\ userDoc.twoFactorEnabled
        /\ ~TwoFactorService_verifyToken(loginReply'.twoFactorToken,
                                         userDoc.twoFactorSecret,
                                         loginReply'.now))
       => (/\ loginReply'.accessToken = NoToken
           /\ loginReply'.cookie = NoToken
           /\ userDoc' = userDoc)]_vars

====
